---- MODULE Spec2Model ----
(***************************************************************************)
(* Model of the review pipeline of ai-code-review-bot: the orchestrator    *)
(* executeReview (src/lib/review/engine.ts) over the persistence layer     *)
(* (src/lib/db/queries.ts), the diff parser (src/lib/review/diff-parser.ts)*)
(* and the context builder and comment mapper (src/unnamed/part_002).      *)
(*                                                                         *)
(* Text is modelled by what the code reads of it.  A raw diff is the       *)
(* sequence of its lines (rawDiff.split("\n")); a line is a record         *)
(*   [t |-> tag, p |-> path, n |-> numbers]                                *)
(* whose tag says which prefix test or regular expression of the parser   *)
(* the line satisfies, p the path the parser slices out of it and n the    *)
(* numbers it reads (hunk header) or the length of the content after the   *)
(* first character (hunk body lines).                                      *)
(***************************************************************************)
EXTENDS Integers, Sequences, FiniteSets, TLC

\* ---------------------------------------------------------------- bounds

\* Number of executeReview calls that may be in flight in SpecRace.
NumAttempts == 2
\* Longest findings list one analyzeReviewChunk result carries.
MaxFindings == 2
MaxBlocks == 3
NumAstCalls == 3

\* The JavaScript null of a line number (types/review: number | null).
NULL == -1

\* ------------------------------------------------------- sequence helpers

RECURSIVE SeqSum(_)
SeqSum(s) == IF s = <<>> THEN 0 ELSE Head(s) + SeqSum(Tail(s))

Range(s) == { s[i] : i \in DOMAIN s }

\* Number of occurrences of x in s.
Count(s, x) == Cardinality({ i \in DOMAIN s : s[i] = x })

\* s and t hold the same elements with the same multiplicities.
SameBag(s, t) ==
    /\ Len(s) = Len(t)
    /\ \A x \in Range(s) \cup Range(t) : Count(s, x) = Count(t, x)

\* Smallest index of a line of lines whose tag is in Tags, 0 when there is none
\* (the position a for-of loop or Array.find stops at).
FirstIdx(lines, Tags) ==
    LET hits == { i \in DOMAIN lines : lines[i].t \in Tags }
    IN  IF hits = {} THEN 0 ELSE CHOOSE i \in hits : \A j \in hits : i <= j

\* ------------------------------------------------------------ diff text

\* Line constructors.  Tags:
\*   "diff"    diff --git a/.. b/p   (p = "" when ^a\/.+ b\/(.+)$ does not match)
\*   "old"     --- a/p               "oldnull"  --- /dev/null
\*   "new"     +++ b/p               "newnull"  +++ /dev/null
\*   "newfile" new file mode ..      "delfile"  deleted file mode ..
\*   "renfrom" rename from p         "rento"    rename to p
\*   "binary"  Binary files .. differ / GIT binary patch
\*   "hunk"    @@ -n1[,n2] +n3[,n4] @@ rest   (NULL for an absent count)
\*   "+" "-" " "  hunk body line, n[1] = length of the content after the mark
\*   "nonl"    \ No newline at end of file
\*   "blank"   the empty line        "other"  any other text
Ln(t, p, n) == [t |-> t, p |-> p, n |-> n]
DiffGit(p)  == Ln("diff", p, <<>>)
OldFile(p)  == Ln("old", p, <<>>)
NewFile(p)  == Ln("new", p, <<>>)
Hunk(os, oc, ns, nc) == Ln("hunk", "", <<os, oc, ns, nc>>)
Add(len)    == Ln("+", "", <<len>>)
Del(len)    == Ln("-", "", <<len>>)
Ctx(len)    == Ln(" ", "", <<len>>)
Tag(t)      == Ln(t, "", <<>>)

\* The path a parser function returns when it returns null.
NullPath == "<null>"

\* String.length of the paths the model uses.
\* Ten source files of one directory.
TenPaths ==
    <<"src/f0.ts", "src/f1.ts", "src/f2.ts", "src/f3.ts", "src/f4.ts",
      "src/f5.ts", "src/f6.ts", "src/f7.ts", "src/f8.ts", "src/f9.ts">>

PathLen(p) ==
    CASE p = "src/a.ts"    -> 8
      [] p \in Range(TenPaths) -> 9
      [] p = "src/b.ts"    -> 8
      [] p = "src/ren.ts"  -> 10
      [] p = "src/auth.ts" -> 11
      [] p = "src/big.ts"  -> 10
      [] p = "src/old.ts"  -> 10
      [] p = "yarn.lock"   -> 9
      [] p = "x.png"       -> 5
      [] p = "logo.bin"    -> 8
      [] p = "package-lock.json"  -> 17
      [] p = "app.min.js"         -> 10
      [] p = "app.js.map"         -> 10
      [] p = "src/generated/x.ts" -> 18
      [] p = "node_modules/x.js"  -> 17
      [] OTHER             -> 6

\* A line made of white space only: String.trim removes it at either end of
\* the text.  A context line is white space only when its content is empty
\* (contents of the model hold no leading or trailing white space).
IsWhitespaceLine(l) == l.t = "blank" \/ (l.t = " " /\ l.n[1] = 0)

\* rawDiff.trim(), on the sequence of lines.
RECURSIVE TrimStart(_)
TrimStart(lines) ==
    IF lines = <<>> THEN <<>>
    ELSE IF IsWhitespaceLine(Head(lines)) THEN TrimStart(Tail(lines))
    ELSE lines

RECURSIVE TrimEnd(_)
TrimEnd(lines) ==
    IF lines = <<>> THEN <<>>
    ELSE IF IsWhitespaceLine(lines[Len(lines)])
         THEN TrimEnd(SubSeq(lines, 1, Len(lines) - 1))
    ELSE lines

Trim(lines) == TrimEnd(TrimStart(lines))

\* ---------------------------------------------------------- diff parser

\* NON_REVIEWABLE_PATTERNS.some(pattern.test(filePath)), on the model's paths:
\* yarn.lock matches /\.lock$/, x.png /\.png$/, package-lock.json /[-.]lock\./,
\* app.min.js /\.min\.js$/, app.js.map /\.map$/, src/generated/x.ts
\* /^src\/generated\//, node_modules/x.js /^node_modules\//.
isReviewableFile(filePath) ==
    filePath \notin {"yarn.lock", "x.png", "package-lock.json", "app.min.js",
                      "app.js.map", "src/generated/x.ts", "node_modules/x.js"}

\* LANGUAGE_EXTENSIONS[extension] ?? null, on the model's paths.
detectLanguageFromFilePath(filePath) ==
    IF filePath \in {"src/a.ts", "src/b.ts", "src/auth.ts", "src/big.ts",
                      "src/old.ts", "src/ren.ts", "src/generated/x.ts"}
                     \cup Range(TenPaths)
    THEN "typescript"
    ELSE IF filePath \in {"app.min.js", "node_modules/x.js"} THEN "javascript"
    ELSE "null"

\* rawDiff.split(/^diff --git /m) without its blank parts: one block per
\* "diff" line, running to the next one, and before them the text that
\* precedes the first "diff" line.
splitIntoFileBlocks(lines) ==
    LET starts == { i \in DOMAIN lines : lines[i].t = "diff" }
        EndOf(i) ==
            LET later == { j \in starts : j > i }
            IN  IF later = {} THEN Len(lines)
                ELSE (CHOOSE j \in later : \A k \in later : j <= k) - 1
        first == FirstIdx(lines, {"diff"})
        prefix == IF first = 0 THEN lines ELSE SubSeq(lines, 1, first - 1)
        RECURSIVE From(_)
        From(i) ==
            IF i > Len(lines) THEN <<>>
            ELSE IF i \in starts
                 THEN <<SubSeq(lines, i, EndOf(i))>> \o From(EndOf(i) + 1)
            ELSE From(i + 1)
    IN  (IF Trim(prefix) = <<>> THEN <<>> ELSE <<prefix>>) \o From(1)

extractFilePath(lines) ==
    LET i == FirstIdx(lines, {"new", "newnull"})
        o == FirstIdx(lines, {"old"})
    IN  IF i # 0 /\ lines[i].t = "new" THEN lines[i].p
        ELSE IF i # 0 THEN (IF o # 0 THEN lines[o].p ELSE NullPath)
        ELSE IF lines # <<>> /\ lines[1].t = "diff" /\ lines[1].p # ""
             THEN lines[1].p
        ELSE NullPath

extractPreviousFilePath(lines) ==
    LET r == FirstIdx(lines, {"renfrom"})
        o == FirstIdx(lines, {"old"})
        n == FirstIdx(lines, {"new"})
    IN  IF r # 0 THEN lines[r].p
        ELSE IF o # 0 /\ n # 0 /\ lines[o].p # lines[n].p THEN lines[o].p
        ELSE NullPath

detectFileChangeType(lines) ==
    LET m == FirstIdx(lines, {"newfile", "delfile", "renfrom", "rento"})
    IN  IF m # 0
        THEN CASE lines[m].t = "newfile" -> "added"
               [] lines[m].t = "delfile" -> "deleted"
               [] OTHER                  -> "renamed"
        ELSE IF FirstIdx(lines, {"oldnull"}) # 0 THEN "added"
        ELSE IF FirstIdx(lines, {"newnull"}) # 0 THEN "deleted"
        ELSE "modified"

\* raw.startsWith("+"), raw.startsWith("-"), raw.startsWith(" ").
StartsWithPlus(l)  == l.t \in {"+", "new", "newnull"}
StartsWithMinus(l) == l.t \in {"-", "old", "oldnull"}
StartsWithSpace(l) == l.t = " "

\* raw.slice(1).length
ContentLen(l) ==
    CASE l.t \in {"+", "-", " "}       -> l.n[1]
      [] l.t \in {"new", "old"}        -> 5 + PathLen(l.p)
      [] OTHER                         -> 12

DiffLine(type, len, new, old) ==
    [type |-> type, len |-> len, newLineNumber |-> new, oldLineNumber |-> old]

\* The loop of buildDiffHunk over rawLines, from counters oldLine and newLine.
RECURSIVE parseHunkLines(_, _, _)
parseHunkLines(rawLines, oldLine, newLine) ==
    IF rawLines = <<>> THEN <<>>
    ELSE LET raw == Head(rawLines)
             rest == Tail(rawLines)
         IN  IF StartsWithPlus(raw)
             THEN <<DiffLine("added", ContentLen(raw), newLine, NULL)>>
                    \o parseHunkLines(rest, oldLine, newLine + 1)
             ELSE IF StartsWithMinus(raw)
             THEN <<DiffLine("removed", ContentLen(raw), NULL, oldLine)>>
                    \o parseHunkLines(rest, oldLine + 1, newLine)
             ELSE IF StartsWithSpace(raw)
             THEN <<DiffLine("context", ContentLen(raw), newLine, oldLine)>>
                    \o parseHunkLines(rest, oldLine + 1, newLine + 1)
             ELSE parseHunkLines(rest, oldLine, newLine)

\* Number.parseInt(match[k] ?? "1", 10)
MatchInt(x) == IF x = NULL THEN 1 ELSE x

\* A loop that takes the "no newline at end of file" marker for a context line.
RECURSIVE parseHunkLines_MarkerIsLine(_, _, _)
parseHunkLines_MarkerIsLine(rawLines, oldLine, newLine) ==
    IF rawLines = <<>> THEN <<>>
    ELSE LET raw == Head(rawLines)
             rest == Tail(rawLines)
         IN  IF StartsWithPlus(raw)
             THEN <<DiffLine("added", ContentLen(raw), newLine, NULL)>>
                    \o parseHunkLines_MarkerIsLine(rest, oldLine, newLine + 1)
             ELSE IF StartsWithMinus(raw)
             THEN <<DiffLine("removed", ContentLen(raw), NULL, oldLine)>>
                    \o parseHunkLines_MarkerIsLine(rest, oldLine + 1, newLine)
             ELSE IF StartsWithSpace(raw) \/ raw.t = "nonl"
             THEN <<DiffLine("context", ContentLen(raw), newLine, oldLine)>>
                    \o parseHunkLines_MarkerIsLine(rest, oldLine + 1, newLine + 1)
             ELSE parseHunkLines_MarkerIsLine(rest, oldLine, newLine)

buildDiffHunk_MarkerIsLine(header, rawLines) ==
    [ oldStart |-> MatchInt(header.n[1]),
      oldCount |-> MatchInt(header.n[2]),
      newStart |-> MatchInt(header.n[3]),
      newCount |-> MatchInt(header.n[4]),
      lines    |-> parseHunkLines_MarkerIsLine(rawLines, MatchInt(header.n[1]),
                                               MatchInt(header.n[3])) ]

buildDiffHunk(header, rawLines) ==
    [ oldStart |-> MatchInt(header.n[1]),
      oldCount |-> MatchInt(header.n[2]),
      newStart |-> MatchInt(header.n[3]),
      newCount |-> MatchInt(header.n[4]),
      lines    |-> parseHunkLines(rawLines, MatchInt(header.n[1]),
                                  MatchInt(header.n[3])) ]

\* parseHunks: every "hunk" line opens a hunk that takes the lines up to the
\* next "hunk" line or the end of the block; lines before the first are ignored.
parseHunks(lines) ==
    LET heads == { i \in DOMAIN lines : lines[i].t = "hunk" }
        EndOf(i) ==
            LET later == { j \in heads : j > i }
            IN  IF later = {} THEN Len(lines)
                ELSE (CHOOSE j \in later : \A k \in later : j <= k) - 1
        RECURSIVE From(_)
        From(i) ==
            IF i > Len(lines) THEN <<>>
            ELSE IF i \in heads
                 THEN <<buildDiffHunk(lines[i], SubSeq(lines, i + 1, EndOf(i)))>>
                        \o From(EndOf(i) + 1)
            ELSE From(i + 1)
    IN  From(1)

\* A parseFileDiff that does not read the binary marker.
parseFileDiff_IgnoresBinaryMark(block) ==
    LET filePath == extractFilePath(block)
    IN  IF filePath = NullPath THEN <<>>
        ELSE IF ~isReviewableFile(filePath) THEN <<>>
        ELSE << [ filePath         |-> filePath,
                  previousFilePath |-> extractPreviousFilePath(block),
                  changeType       |-> detectFileChangeType(block),
                  language         |-> detectLanguageFromFilePath(filePath),
                  hunks            |-> parseHunks(block),
                  isBinary         |-> FALSE ] >>

\* A parseFileDiff that keeps a non-reviewable file, without its hunks.
parseFileDiff_KeepsNonReviewable(block) ==
    LET filePath == extractFilePath(block)
        isBinary == FirstIdx(block, {"binary"}) # 0
    IN  IF filePath = NullPath THEN <<>>
        ELSE << [ filePath         |-> filePath,
                  previousFilePath |-> extractPreviousFilePath(block),
                  changeType       |-> detectFileChangeType(block),
                  language         |-> detectLanguageFromFilePath(filePath),
                  hunks            |-> IF isBinary \/ ~isReviewableFile(filePath)
                                       THEN <<>> ELSE parseHunks(block),
                  isBinary         |-> isBinary ] >>

\* parseFileDiff: <<>> for null, else the one-element sequence of the file.
parseFileDiff(block) ==
    LET filePath == extractFilePath(block)
        isBinary == FirstIdx(block, {"binary"}) # 0
    IN  IF filePath = NullPath THEN <<>>
        ELSE IF ~isReviewableFile(filePath) THEN <<>>
        ELSE << [ filePath         |-> filePath,
                  previousFilePath |-> extractPreviousFilePath(block),
                  changeType       |-> detectFileChangeType(block),
                  language         |-> detectLanguageFromFilePath(filePath),
                  hunks            |-> IF isBinary THEN <<>> ELSE parseHunks(block),
                  isBinary         |-> isBinary ] >>

\* A loop over the blocks that ends at the first block it cannot read.
RECURSIVE ParseBlocks_StopsAtSkipped(_)
ParseBlocks_StopsAtSkipped(blocks) ==
    IF blocks = <<>> THEN <<>>
    ELSE IF parseFileDiff(Head(blocks)) = <<>> THEN <<>>
    ELSE parseFileDiff(Head(blocks)) \o ParseBlocks_StopsAtSkipped(Tail(blocks))

RECURSIVE ParseBlocks(_)
ParseBlocks(blocks) ==
    IF blocks = <<>> THEN <<>>
    ELSE parseFileDiff(Head(blocks)) \o ParseBlocks(Tail(blocks))

\* A parser that reports a text in which it understands no file as empty.
parseUnifiedDiff_EmptyWhenNoFiles(rawDiff) ==
    LET files == ParseBlocks(splitIntoFileBlocks(Trim(rawDiff)))
    IN  IF files = <<>>
        THEN [success |-> FALSE, error |-> "DIFF_EMPTY", files |-> <<>>]
        ELSE [success |-> TRUE, error |-> "", files |-> files]

\* parseUnifiedDiff: err("DIFF_EMPTY") or ok({files}).
\* A parser without the check for an empty diff.
parseUnifiedDiff_NoEmptyCheck(rawDiff) ==
    [success |-> TRUE, error |-> "",
     files |-> ParseBlocks(splitIntoFileBlocks(Trim(rawDiff)))]

parseUnifiedDiff(rawDiff) ==
    LET trimmed == Trim(rawDiff)
    IN  IF trimmed = <<>>
        THEN [success |-> FALSE, error |-> "DIFF_EMPTY", files |-> <<>>]
        ELSE [success |-> TRUE, error |-> "",
              files |-> ParseBlocks(splitIntoFileBlocks(trimmed))]

\* ------------------------------------------------------ context builder

DEFAULT_MAX_TOKENS_PER_CHUNK == 30000

\* An AstScope, with the lengths of its name and type in place of the strings.
Scope(type, nameLen, startLine, endLine) ==
    [type |-> type, nameLen |-> nameLen, startLine |-> startLine, endLine |-> endLine]

\* scope.type.length
TypeLen(type) ==
    CASE type = "function" -> 8
      [] type = "method"   -> 6
      [] OTHER             -> 5

\* An AstFileContext without structure: astContext?.scopes ?? [], ?.imports ?? [].
NoAst == [scopes |-> <<>>, imports |-> <<>>]

\* A filter that keeps deleted files.
filterReviewableFiles_KeepsDeleted(files) ==
    SelectSeq(files, LAMBDA file : ~file.isBinary /\ Len(file.hunks) > 0)

filterReviewableFiles(files) ==
    SelectSeq(files, LAMBDA file :
        ~file.isBinary /\ file.changeType # "deleted" /\ Len(file.hunks) > 0)

\* A scope search that keeps the scopes that contain the whole hunk.
findEnclosingScopesForHunk_Containing(hunk, scopes) ==
    SelectSeq(scopes, LAMBDA scope :
        scope.startLine <= hunk.newStart
        /\ scope.endLine >= hunk.newStart + hunk.newCount - 1)

findEnclosingScopesForHunk(hunk, scopes) ==
    LET hunkStartLine == hunk.newStart
        hunkEndLine == hunk.newStart + hunk.newCount - 1
    IN  SelectSeq(scopes, LAMBDA scope :
            scope.startLine <= hunkEndLine /\ scope.endLine >= hunkStartLine)

\* astContexts and fileContents are functions on the paths they hold
\* (Map.get gives undefined outside the domain).
buildFileReviewContext(file, astContexts, fileContents) ==
    LET ast == IF file.filePath \in DOMAIN astContexts
               THEN astContexts[file.filePath] ELSE NoAst
    IN  [ filePath      |-> file.filePath,
          language      |-> file.language,
          changeType    |-> file.changeType,
          enrichedHunks |-> [ i \in DOMAIN file.hunks |->
                                [ hunk |-> file.hunks[i],
                                  enclosingScopes |->
                                    findEnclosingScopesForHunk(file.hunks[i], ast.scopes) ] ],
          imports       |-> ast.imports,
          fullFileContent |-> IF file.filePath \in DOMAIN fileContents
                              THEN fileContents[file.filePath] ELSE "null" ]

\* SECURITY_SENSITIVE_PATTERNS.some(pattern.test(filePath)), on the model's
\* paths: src/auth.ts matches /auth/i.
isSecuritySensitiveFile(filePath) == filePath \in {"src/auth.ts"}

countChangedLines(context) ==
    SeqSum([ i \in DOMAIN context.enrichedHunks |->
        Len(SelectSeq(context.enrichedHunks[i].hunk.lines,
                      LAMBDA line : line.type \in {"added", "removed"})) ])

\* The comparator of prioritizeFiles: negative when a sorts before b.
ComparePriority(a, b) ==
    LET aSecure == IF isSecuritySensitiveFile(a.filePath) THEN 0 ELSE 1
        bSecure == IF isSecuritySensitiveFile(b.filePath) THEN 0 ELSE 1
    IN  IF aSecure # bSecure THEN aSecure - bSecure
        ELSE countChangedLines(b) - countChangedLines(a)

\* Array.prototype.sort is stable: x goes after every element it does not
\* strictly precede.
RECURSIVE InsertSorted(_, _)
InsertSorted(x, sorted) ==
    IF sorted = <<>> THEN <<x>>
    ELSE IF ComparePriority(x, Head(sorted)) < 0 THEN <<x>> \o sorted
    ELSE <<Head(sorted)>> \o InsertSorted(x, Tail(sorted))

\* The files in the order of the diff.
prioritizeFiles_DiffOrder(files) == files

RECURSIVE prioritizeFiles(_)
prioritizeFiles(files) ==
    IF files = <<>> THEN <<>>
    ELSE InsertSorted(files[Len(files)],
                      prioritizeFiles(SubSeq(files, 1, Len(files) - 1)))

estimateFileTokenCount(context) ==
    LET hunkChars(e) ==
            SeqSum([ i \in DOMAIN e.hunk.lines |-> e.hunk.lines[i].len + 10 ])
          + SeqSum([ i \in DOMAIN e.enclosingScopes |->
                       e.enclosingScopes[i].nameLen
                       + TypeLen(e.enclosingScopes[i].type) + 20 ])
        charCount ==
            PathLen(context.filePath)
          + SeqSum([ i \in DOMAIN context.enrichedHunks |->
                       hunkChars(context.enrichedHunks[i]) ])
          + SeqSum([ i \in DOMAIN context.imports |->
                       context.imports[i].sourceLen + 20 ])
    IN  (charCount + 3) \div 4

\* The loop of chunkFileContexts from the state (chunks, currentFiles,
\* currentTokenCount), and the final push.
RECURSIVE ChunkLoop(_, _, _, _, _)
ChunkLoop(files, maxTokensPerChunk, chunks, currentFiles, currentTokenCount) ==
    IF files = <<>>
    THEN IF Len(currentFiles) > 0
         THEN Append(chunks, [files |-> currentFiles,
                              estimatedTokenCount |-> currentTokenCount])
         ELSE chunks
    ELSE LET file == Head(files)
             fileTokens == estimateFileTokenCount(file)
             close == Len(currentFiles) > 0
                      /\ currentTokenCount + fileTokens > maxTokensPerChunk
         IN  IF close
             THEN ChunkLoop(Tail(files), maxTokensPerChunk,
                            Append(chunks, [files |-> currentFiles,
                                            estimatedTokenCount |-> currentTokenCount]),
                            <<file>>, fileTokens)
             ELSE ChunkLoop(Tail(files), maxTokensPerChunk, chunks,
                            Append(currentFiles, file),
                            currentTokenCount + fileTokens)

\* A chunker that closes the chunk before every file.
chunkFileContexts_OnePerChunk(files, maxTokensPerChunk) ==
    ChunkLoop(files, 0, <<>>, <<>>, 0)

\* A chunker that puts every file in one chunk.
chunkFileContexts_OneChunk(files, maxTokensPerChunk) ==
    ChunkLoop(files, SeqSum([i \in DOMAIN files |-> estimateFileTokenCount(files[i])]),
              <<>>, <<>>, 0)

\* A chunker that leaves out a file whose own estimate exceeds the budget.
chunkFileContexts_DropsOversized(files, maxTokensPerChunk) ==
    ChunkLoop(SelectSeq(files, LAMBDA f : estimateFileTokenCount(f) <= maxTokensPerChunk),
              maxTokensPerChunk, <<>>, <<>>, 0)

chunkFileContexts(files, maxTokensPerChunk) ==
    ChunkLoop(files, maxTokensPerChunk, <<>>, <<>>, 0)

\* buildReviewContext: err("CONTEXT_NO_REVIEWABLE_FILES") or ok(chunks).
buildReviewContext(parsedFiles, astContexts, fileContents, maxTokens) ==
    LET reviewableFiles == filterReviewableFiles(parsedFiles)
        fileContexts == [ i \in DOMAIN reviewableFiles |->
            buildFileReviewContext(reviewableFiles[i], astContexts, fileContents) ]
    IN  IF Len(reviewableFiles) = 0
        THEN [success |-> FALSE, error |-> "CONTEXT_NO_REVIEWABLE_FILES", data |-> <<>>]
        ELSE [success |-> TRUE, error |-> "",
              data |-> chunkFileContexts(prioritizeFiles(fileContexts), maxTokens)]

\* ------------------------------------------------------- comment mapper

\* A ReviewFinding of the text-analysis service.
Finding(filePath, lineNumber, category, severity, message, suggestion) ==
    [ filePath |-> filePath, lineNumber |-> lineNumber, category |-> category,
      severity |-> severity, message |-> message, suggestion |-> suggestion ]

\* SEVERITY_BADGES[severity] ?? severity
SeverityBadge(severity) ==
    CASE severity = "CRITICAL"   -> "Critical"
      [] severity = "WARNING"    -> "Warning"
      [] severity = "SUGGESTION" -> "Suggestion"
      [] severity = "NITPICK"    -> "Nitpick"
      [] OTHER                   -> severity

\* CATEGORY_LABELS[category] ?? category
CategoryLabel(category) ==
    CASE category = "SECURITY"       -> "Security"
      [] category = "BUGS"           -> "Bug Risk"
      [] category = "PERFORMANCE"    -> "Performance"
      [] category = "STYLE"          -> "Style"
      [] category = "BEST_PRACTICES" -> "Best Practices"
      [] OTHER                       -> category

\* The body text, as the parts it concatenates; the suggestion block is
\* present when finding.suggestion is a non-empty string.
formatCommentBody(finding) ==
    [ badge      |-> SeverityBadge(finding.severity),
      category   |-> CategoryLabel(finding.category),
      message    |-> finding.message,
      suggestion |-> finding.suggestion ]

\* Array.find: the first file whose current or previous path is filePath;
\* 0 for undefined.
findFileInDiff(files, filePath) ==
    LET hits == { i \in DOMAIN files :
                    files[i].filePath = filePath \/ files[i].previousFilePath = filePath }
    IN  IF hits = {} THEN 0 ELSE CHOOSE i \in hits : \A j \in hits : i <= j

\* Whether a line of a hunk matches lineNumber in findLineInHunk.
LineMatches(line, lineNumber) ==
    \/ line.newLineNumber = lineNumber
    \/ (line.type = "removed" /\ line.oldLineNumber = lineNumber)

\* A findLineInHunk that reports every match on the new side.
findLineInHunk_AlwaysRight(hunk, lineNumber) ==
    LET hits == { i \in DOMAIN hunk.lines : LineMatches(hunk.lines[i], lineNumber) }
        first == CHOOSE i \in hits : \A j \in hits : i <= j
    IN  IF hits = {} THEN <<>>
        ELSE << [ line |-> hunk.lines[first], side |-> "RIGHT" ] >>

\* findLineInHunk: the first matching line and its side; <<>> for undefined.
findLineInHunk(hunk, lineNumber) ==
    LET hits == { i \in DOMAIN hunk.lines : LineMatches(hunk.lines[i], lineNumber) }
        first == CHOOSE i \in hits : \A j \in hits : i <= j
    IN  IF hits = {} THEN <<>>
        ELSE << [ line |-> hunk.lines[first],
                  side |-> IF hunk.lines[first].type = "removed"
                           THEN "LEFT" ELSE "RIGHT" ] >>

\* findLineInFile: the match of the first hunk that has one.
RECURSIVE findLineInHunks(_, _)
findLineInHunks(hunks, lineNumber) ==
    IF hunks = <<>> THEN <<>>
    ELSE IF findLineInHunk(Head(hunks), lineNumber) # <<>>
         THEN findLineInHunk(Head(hunks), lineNumber)
    ELSE findLineInHunks(Tail(hunks), lineNumber)

findLineInFile(diffFile, lineNumber) == findLineInHunks(diffFile.hunks, lineNumber)

\* x ?? y on line numbers.
Coalesce(x, y) == IF x = NULL THEN y ELSE x

\* A mapSingleFinding that does not test for a file without hunks.
mapSingleFinding_NoHunkCheck(finding, files) ==
    LET f == findFileInDiff(files, finding.filePath)
        lineMatch == findLineInFile(files[f], finding.lineNumber)
        Unmapped(reason) ==
            [ mapped |-> FALSE, finding |-> finding, reason |-> reason,
              path |-> "", line |-> 0, side |-> "", formattedBody |-> <<>> ]
    IN  IF f = 0 THEN Unmapped("not found in diff")
        ELSE IF lineMatch = <<>> THEN Unmapped("is not within the diff context")
        ELSE [ mapped  |-> TRUE, finding |-> finding, reason |-> "",
               path    |-> files[f].filePath,
               line    |-> IF lineMatch[1].side = "LEFT"
                           THEN Coalesce(lineMatch[1].line.oldLineNumber, finding.lineNumber)
                           ELSE Coalesce(lineMatch[1].line.newLineNumber, finding.lineNumber),
               side    |-> lineMatch[1].side,
               formattedBody |-> <<formatCommentBody(finding)>> ]

\* mapSingleFinding: a MappedReviewComment (mapped = TRUE, the "path" in result
\* test of isMappedComment) or an UnmappedFinding with its reason.
mapSingleFinding(finding, files) ==
    LET f == findFileInDiff(files, finding.filePath)
        lineMatch == findLineInFile(files[f], finding.lineNumber)
        Unmapped(reason) ==
            [ mapped |-> FALSE, finding |-> finding, reason |-> reason,
              path |-> "", line |-> 0, side |-> "", formattedBody |-> <<>> ]
    IN  IF f = 0 THEN Unmapped("not found in diff")
        ELSE IF Len(files[f].hunks) = 0 THEN Unmapped("has no reviewable hunks")
        ELSE IF lineMatch = <<>> THEN Unmapped("is not within the diff context")
        ELSE [ mapped  |-> TRUE, finding |-> finding, reason |-> "",
               path    |-> files[f].filePath,
               line    |-> IF lineMatch[1].side = "LEFT"
                           THEN Coalesce(lineMatch[1].line.oldLineNumber, finding.lineNumber)
                           ELSE Coalesce(lineMatch[1].line.newLineNumber, finding.lineNumber),
               side    |-> lineMatch[1].side,
               formattedBody |-> <<formatCommentBody(finding)>> ]

\* A mapper that puts a finding of a file absent from the diff in neither list.
mapFindingsToGitHubComments_DropsNotFound(findings, files) ==
    LET results == [ i \in DOMAIN findings |-> mapSingleFinding(findings[i], files) ]
    IN  [ mappedComments   |-> SelectSeq(results, LAMBDA r : r.mapped),
          unmappedFindings |-> SelectSeq(results,
                                  LAMBDA r : ~r.mapped /\ r.reason # "not found in diff") ]

\* mapFindingsToGitHubComments returns the plain object
\* { mappedComments, unmappedFindings }: it has no success and no data field.
mapFindingsToGitHubComments(findings, files) ==
    LET results == [ i \in DOMAIN findings |-> mapSingleFinding(findings[i], files) ]
    IN  [ mappedComments   |-> SelectSeq(results, LAMBDA r : r.mapped),
          unmappedFindings |-> SelectSeq(results, LAMBDA r : ~r.mapped) ]

\* buildReviewSummary, as the parts of the text it builds: the summary of the
\* analysis, one "additional findings" item per unmapped finding, and the
\* numbers of the count line.
buildReviewSummary(llmSummary, mappedCount, unmappedFindings) ==
    [ llmSummary |-> llmSummary,
      additional |-> [ i \in DOMAIN unmappedFindings |->
          [ badge      |-> SeverityBadge(unmappedFindings[i].finding.severity),
            category   |-> CategoryLabel(unmappedFindings[i].finding.category),
            filePath   |-> unmappedFindings[i].finding.filePath,
            lineNumber |-> unmappedFindings[i].finding.lineNumber,
            message    |-> unmappedFindings[i].finding.message ] ],
      total      |-> mappedCount + Len(unmappedFindings),
      inline     |-> mappedCount,
      inSummary  |-> Len(unmappedFindings) ]

\* ------------------------------------------------- the model's inputs

\* Repository full names, as sequences of characters.
NameOR  == <<"o", "/", "r">>
NameOX  == <<"o", "/", "x">>
NameON  == <<"o", "/", "n">>
NameBare == <<"o", "r">>
NameDeep == <<"o", "/", "r", "/", "z">>
NameNoRepo == <<"o", "/">>
NameNoOwner == <<"/", "r">>

\* The repository table: o/r is enabled, o/x is disabled, no other name is known.
Repositories ==
    { [fullName |-> NameOR, id |-> "r1", isEnabled |-> TRUE],
      [fullName |-> NameOX, id |-> "r2", isEnabled |-> FALSE] }

\* Raw diffs the source-hosting service may return.
\* White space only.
DiffBlank == <<Tag("blank"), Ctx(0)>>
\* One block, of a lockfile.
DiffLockOnly ==
    <<DiffGit("yarn.lock"), OldFile("yarn.lock"), NewFile("yarn.lock"),
      Hunk(1, 1, 1, 1), Del(9), Add(9)>>
\* A binary file, a deleted file, and a file renamed without a change.
DiffNoContent ==
    <<DiffGit("logo.bin"), Tag("binary"),
      DiffGit("src/old.ts"), Tag("delfile"), OldFile("src/old.ts"), Tag("newnull"),
      Hunk(1, 2, 0, 0), Del(4), Del(4),
      DiffGit("src/ren.ts"), Ln("renfrom", "src/r0.ts", <<>>),
      Ln("rento", "src/ren.ts", <<>>)>>
\* src/a.ts modified: old lines 1-3 become new lines 1-3, line 2 replaced.
BlockA ==
    <<DiffGit("src/a.ts"), OldFile("src/a.ts"), NewFile("src/a.ts"),
      Hunk(1, 3, 1, 3), Ctx(5), Del(7), Add(8), Ctx(5)>>
\* src/big.ts added with one line of 119,990 characters: 30,000 tokens alone.
BlockBig ==
    <<DiffGit("src/big.ts"), Tag("newfile"), Tag("oldnull"), NewFile("src/big.ts"),
      Hunk(0, 0, 1, 1), Add(119990)>>
DiffSmall == BlockA
DiffTwoChunks == BlockA \o BlockBig
\* src/b.ts renamed to src/a.ts with one line replaced, and a new src/b.ts.
DiffRename ==
    <<DiffGit("src/a.ts"), Ln("renfrom", "src/b.ts", <<>>),
      Ln("rento", "src/a.ts", <<>>), OldFile("src/b.ts"), NewFile("src/a.ts"),
      Hunk(1, 1, 1, 1), Del(3), Add(4),
      DiffGit("src/b.ts"), Tag("newfile"), Tag("oldnull"), NewFile("src/b.ts"),
      Hunk(0, 0, 1, 2), Add(5), Add(5)>>
\* src/b.ts modified: old line 5 deleted, old lines 8 and 9 replaced by three.
DiffDeletion ==
    <<DiffGit("src/b.ts"), OldFile("src/b.ts"), NewFile("src/b.ts"),
      Hunk(5, 1, 4, 0), Del(4),
      Hunk(8, 2, 7, 3), Del(6), Del(6), Add(7), Add(7), Add(7)>>
\* src/a.ts modified: its only hunk spans new lines 10 to 20, line 15 replaced.
DiffHunk10 ==
    <<DiffGit("src/a.ts"), OldFile("src/a.ts"), NewFile("src/a.ts"),
      Hunk(10, 11, 10, 11), Ctx(5), Ctx(5), Ctx(5), Ctx(5), Ctx(5),
      Del(7), Add(8), Ctx(5), Ctx(5), Ctx(5), Ctx(5), Ctx(5)>>

\* Findings the text-analysis service may report.
\* On a line of src/a.ts that the diff adds.
FindingInDiff == Finding("src/a.ts", 2, "BUGS", "WARNING", "m1", "fix")
\* On a file that is in no diff of the model.
FindingElsewhere == Finding("src/zz.ts", 1, "SECURITY", "CRITICAL", "m2", "")
FindingUniverse == {FindingInDiff, FindingElsewhere}

\* Sequences over S of length at most n.
SeqsUpTo(S, n) == UNION { [1..k -> S] : k \in 0..n }

\* A ReviewResult: findings and summary (the token usage is only logged).
LlmResult(findings, summary) == [findings |-> findings, summary |-> summary]

\* ------------------------------------------------------------- the state

Attempts == 1..NumAttempts
AstCallers == 1..NumAstCalls

VARIABLES
    reviews,        \* the review table: reviews[id] is the record of ReviewId id
    reviewComments, \* the reviewComment table, in insertion order
    posted,         \* the reviews the source-hosting service accepted
    att,            \* att[a]: the locals and position of executeReview call a
    eval,           \* a function of the program applied on its own: its
                    \* arguments and, once applied, its result
    initialized,    \* the structure parser module: let initialized
    parserInstance, \* let parserInstance: 0 for null, else the k-th Parser made
    backend,        \* what happened to the syntax backend: the Parser.init
                    \* calls that resolved, the Parser objects constructed
    astCalls        \* astCalls[c]: call c of initializeAstParser or parseFileAst

astVars == <<initialized, parserInstance, backend, astCalls>>
vars == <<reviews, reviewComments, posted, att, eval, astVars>>

\* No function is applied on its own.
NoEval == [fn |-> "", args |-> <<>>, done |-> FALSE, out |-> <<>>]

NoRequest == [repositoryFullName |-> <<>>, pullRequestNumber |-> 0, commitSha |-> ""]

\* A Result<ReviewEngineResult, ReviewEngineError>: kind is "ok" or the error.
Ok(reviewId, issuesFound, summary) ==
    [kind |-> "ok", reviewId |-> reviewId, issuesFound |-> issuesFound,
     summary |-> summary]
Err(error) == [kind |-> error, reviewId |-> 0, issuesFound |-> 0, summary |-> <<>>]
NoResult == Err("none")

InitAttempt ==
    [ pc           |-> "idle",
      request      |-> NoRequest,
      repositoryId |-> "",
      reviewId     |-> 0,
      diff         |-> <<>>,     \* the text fetchPullRequestDiff gave
      files        |-> <<>>,     \* parsedDiff.files
      pending      |-> {},       \* indices of files whose content fetch is in flight
      fileContents |-> <<>>,     \* contents: path -> text
      chunks       |-> <<>>,
      next         |-> 0,        \* index of the chunk analyzeAllChunks is at
      allFindings  |-> <<>>,
      summaries    |-> <<>>,
      review       |-> <<>>,     \* the payload given to postPullRequestReview
      saveArg      |-> <<>>,     \* the array given to saveReviewComments
      reason       |-> "",       \* the message given to failReview
      result       |-> NoResult, \* what the call returns after its last write
      outcome      |-> NoResult, \* what the call returned
      log          |-> <<>>,     \* the collaborator calls made, with their results
      after        |-> {} ]      \* the calls that had returned when this one began

\* A call of the structure parser module that has not been made.
NoAstCall ==
    [ op            |-> "",
      pc            |-> "idle",
      uninitialized |-> FALSE,  \* parseFileAst found the module uninitialized
      initOutcome   |-> "",     \* how the Parser.init this call awaited settled
      result        |-> "",     \* "ok" or the AstParseError it returned
      used          |-> 0,      \* the parser instance its extraction ran on
      parse         |-> "",     \* how setLanguage, parse and the extraction went
      released      |-> 0 ]     \* the times the call ran tree.delete()

\* The structure parser module as loaded: initialized = false,
\* parserInstance = null.
AstInit ==
    /\ initialized = FALSE
    /\ parserInstance = 0
    /\ backend = [inits |-> 0, parsers |-> 0]
    /\ astCalls = [c \in AstCallers |-> NoAstCall]

Init ==
    /\ reviews = <<>>
    /\ reviewComments = <<>>
    /\ posted = <<>>
    /\ att = [a \in Attempts |-> InitAttempt]
    /\ eval = NoEval
    /\ AstInit

\* One collaborator call of the log: the operation, its argument where the
\* model needs it, and whether it succeeded.
Call(op, arg, ok) == [op |-> op, arg |-> arg, ok |-> ok]

\* The call returns r: executeReview is over.
Return(self, r) == [self EXCEPT !.pc = "done", !.outcome = r]

\* ------------------------------------------------------ persistence layer

\* A repository lookup that does not read isEnabled.
findRepositoryByFullName_AnyStatus(fullName) ==
    { repo \in Repositories : repo.fullName = fullName }

\* prisma.repository.findFirst({where: {fullName, isEnabled: true}}): the set
\* of rows it can return.
findRepositoryByFullName(fullName) ==
    { repo \in Repositories : repo.fullName = fullName /\ repo.isEnabled }

\* A lookup that never finds the review of a commit.
findExistingReviewByCommitSha_NotFound(table, repositoryId, commitSha) == {}

\* prisma.review.findUnique({where: {repositoryId_commitSha}}): the ids found.
findExistingReviewByCommitSha(table, repositoryId, commitSha) ==
    { id \in DOMAIN table :
        table[id].repositoryId = repositoryId /\ table[id].commitSha = commitSha }

\* A review table without the unique key.
CreateAccepted_NoUniqueKey(table, repositoryId, commitSha) == TRUE

\* prisma.review.create accepts the row unless the unique key
\* (repositoryId, commitSha), which findUnique reads by, is taken.
CreateAccepted(table, repositoryId, commitSha) ==
    \A id \in DOMAIN table :
        ~(table[id].repositoryId = repositoryId /\ table[id].commitSha = commitSha)

\* The row createReviewRecord inserts.
NewReview(repositoryId, commitSha) ==
    [ repositoryId |-> repositoryId, commitSha |-> commitSha, status |-> "PENDING",
      summary |-> <<>>, issuesFound |-> 0 ]

\* updateReviewStatus, completeReview and failReview: the table after the update.
\* A status update that reports success and writes nothing.
updateReviewStatus_NotWritten(table, reviewId, status) == table

updateReviewStatus(table, reviewId, status) ==
    [table EXCEPT ![reviewId].status = status]

completeReview(table, reviewId, summary, issuesFound) ==
    [table EXCEPT ![reviewId].status = "COMPLETED",
                  ![reviewId].summary = summary,
                  ![reviewId].issuesFound = issuesFound]

\* A failure write that sets the status and drops the message.
failReview_NoReason(table, reviewId, errorMessage) ==
    [table EXCEPT ![reviewId].status = "FAILED"]

failReview(table, reviewId, errorMessage) ==
    [table EXCEPT ![reviewId].status = "FAILED",
                  ![reviewId].summary = <<"Review failed: ", errorMessage>>]

\* The rows saveReviewComments writes for the array it is given.
CommentRow(reviewId, finding) ==
    [ reviewId |-> reviewId, filePath |-> finding.filePath,
      lineNumber |-> finding.lineNumber, category |-> finding.category,
      severity |-> finding.severity, message |-> finding.message,
      suggestion |-> finding.suggestion ]

\* ----------------------------------------------------------- orchestrator
\* Each action below is one await of executeReview: the awaited operation
\* settles and the code runs on to the next await or to its return.  The
\* AfterX operators give the locals of the call after that code.

\* fullName.split("/")
RECURSIVE SplitSlash(_)
SplitSlash(s) ==
    LET hits == { i \in DOMAIN s : s[i] = "/" }
        i == CHOOSE k \in hits : \A j \in hits : k <= j
    IN  IF hits = {} THEN <<s>>
        ELSE <<SubSeq(s, 1, i - 1)>> \o SplitSlash(SubSeq(s, i + 1, Len(s)))

\* parseRepositoryFullName succeeds.
parseRepositoryFullName(fullName) ==
    LET parts == SplitSlash(fullName)
    IN  ~(Len(parts) # 2 \/ parts[1] = <<>> \/ parts[2] = <<>>)

\* The call issues failReview(reviewId, reason) and will return err(error).
\* A failure path that returns the error without issuing failReview.
ToFailReview_ReturnsAtOnce(self, reason, error) ==
    [self EXCEPT !.pc = "done", !.reason = reason, !.outcome = Err(error)]

ToFailReview(self, reason, error) ==
    [self EXCEPT !.pc = "failReview", !.reason = reason, !.result = Err(error)]

\* The call issues completeReview with summary and issuesFound and will
\* return ok with them.
ToCompleteReview(self, summary, issuesFound) ==
    [self EXCEPT !.pc = "completeReview",
                 !.result = Ok(self.reviewId, issuesFound, summary)]

\* executeReview up to its first await: the name is parsed and the repository
\* lookup is issued.  returned are the calls that had returned by then.
AfterStart(self, request, returned) ==
    LET started == [self EXCEPT !.request = request, !.after = returned]
    IN  IF parseRepositoryFullName(request.repositoryFullName)
        THEN [started EXCEPT !.pc = "findRepository"]
        ELSE Return(started, Err("REVIEW_DB_ERROR"))

Start(a, env) ==
    /\ att[a].pc = "idle"
    /\ \E name \in env.names, sha \in env.shas :
         att' = [att EXCEPT ![a] =
             AfterStart(att[a],
                        [repositoryFullName |-> name, pullRequestNumber |-> 1,
                         commitSha |-> sha],
                        { b \in Attempts : att[b].pc = "done" })]
    /\ UNCHANGED <<astVars, eval, reviews, reviewComments, posted>>

\* lookupRepositoryAndCheckIdempotency after its first query: found is the
\* set of rows the query matches.
AfterFindRepository(self, dbOk, found) ==
    LET logged == [self EXCEPT
                     !.log = Append(@, Call("findRepositoryByFullName", "", dbOk))]
    IN  IF ~dbOk \/ found = {}
        THEN Return(logged, Err("REVIEW_DB_ERROR"))
        ELSE [logged EXCEPT !.pc = "findExisting",
                            !.repositoryId = (CHOOSE repo \in found : TRUE).id]

FindRepository(a, env) ==
    /\ att[a].pc = "findRepository"
    /\ \E dbOk \in env.dbOk :
         att' = [att EXCEPT ![a] =
             AfterFindRepository(att[a], dbOk,
                 findRepositoryByFullName(att[a].request.repositoryFullName))]
    /\ UNCHANGED <<astVars, eval, reviews, reviewComments, posted>>

\* An idempotency check whose answer is not read.
AfterFindExisting_Unread(self, dbOk, existing) ==
    [self EXCEPT !.pc = "createReview",
                 !.log = Append(@, Call("findExistingReviewByCommitSha", "", dbOk))]

\* lookupRepositoryAndCheckIdempotency after its second query, the
\* idempotency check: existing is the set of review ids the query matches.
AfterFindExisting(self, dbOk, existing) ==
    LET logged == [self EXCEPT
                     !.log = Append(@, Call("findExistingReviewByCommitSha", "", dbOk))]
    IN  IF ~dbOk THEN Return(logged, Err("REVIEW_DB_ERROR"))
        ELSE IF existing # {} THEN Return(logged, Err("REVIEW_ALREADY_EXISTS"))
        ELSE [logged EXCEPT !.pc = "createReview"]

FindExistingReview(a, env) ==
    /\ att[a].pc = "findExisting"
    /\ \E dbOk \in env.dbOk :
         att' = [att EXCEPT ![a] =
             AfterFindExisting(att[a], dbOk,
                 findExistingReviewByCommitSha(reviews, att[a].repositoryId,
                                               att[a].request.commitSha))]
    /\ UNCHANGED <<astVars, eval, reviews, reviewComments, posted>>

\* executeReview after createReviewRecord: accepted with the new id, or
\* rejected ("P2002" by the unique key, "" by any other failure).
AfterCreate(self, accepted, reviewId, rejection) ==
    LET logged == [self EXCEPT
                     !.log = Append(@, Call("createReviewRecord", rejection, accepted))]
    IN  IF accepted
        THEN [logged EXCEPT !.pc = "updateStatus", !.reviewId = reviewId]
        ELSE Return(logged, Err("REVIEW_DB_ERROR"))

CreateReviewRecord(a, env) ==
    /\ att[a].pc = "createReview"
    /\ \E dbOk \in env.dbOk :
         LET unique == CreateAccepted(reviews, att[a].repositoryId,
                                      att[a].request.commitSha)
             accepted == dbOk /\ unique
         IN  /\ reviews' = IF accepted
                           THEN Append(reviews, NewReview(att[a].repositoryId,
                                                          att[a].request.commitSha))
                           ELSE reviews
             /\ att' = [att EXCEPT ![a] =
                   AfterCreate(att[a], accepted, Len(reviews) + 1,
                               IF dbOk /\ ~unique THEN "P2002" ELSE "")]
    /\ UNCHANGED <<astVars, eval, reviewComments, posted>>

\* updateReviewStatus(reviewId, "PROCESSING") settled; a failure is logged
\* and the call goes on to fetch the diff.
AfterUpdateStatus(self, dbOk) ==
    [self EXCEPT !.pc = "fetchDiff",
                 !.log = Append(@, Call("updateReviewStatus", "PROCESSING", dbOk))]

UpdateStatusProcessing(a, env) ==
    /\ att[a].pc = "updateStatus"
    /\ \E dbOk \in env.updateOk :
         /\ reviews' = IF dbOk
                       THEN updateReviewStatus(reviews, att[a].reviewId, "PROCESSING")
                       ELSE reviews
         /\ att' = [att EXCEPT ![a] = AfterUpdateStatus(att[a], dbOk)]
    /\ UNCHANGED <<astVars, eval, reviewComments, posted>>

\* enrichDiffWithContext: the files whose content is fetched.
FilesToFetch(files) ==
    { i \in DOMAIN files : ~files[i].isBinary /\ files[i].changeType # "deleted" }

\* A diff step without the early completion for a diff of no files.
AfterFetchDiff_NoShortCircuit(self, diffResult) ==
    LET logged == [self EXCEPT
                     !.diff = diffResult.data,
                     !.log = Append(@, Call("fetchPullRequestDiff", "",
                                            diffResult.success))]
        parsed == parseUnifiedDiff(diffResult.data)
        fetching == [logged EXCEPT !.files = parsed.files,
                                   !.pending = FilesToFetch(parsed.files)]
    IN  IF ~diffResult.success
        THEN ToFailReview(logged, "Failed to fetch PR diff", "REVIEW_DIFF_FETCH_FAILED")
        ELSE IF ~parsed.success
        THEN ToFailReview(logged, "Failed to parse PR diff", "REVIEW_DIFF_PARSE_FAILED")
        ELSE [fetching EXCEPT !.pc = IF fetching.pending = {}
                                     THEN "parseAst" ELSE "fetchContents"]

\* fetchAndParseDiff, and on success executeReview up to its next await: the
\* early completion for a diff without files, or the issue of one content
\* fetch per file to fetch (Promise.allSettled over filePaths.map).
AfterFetchDiff(self, diffResult) ==
    LET logged == [self EXCEPT
                     !.diff = diffResult.data,
                     !.log = Append(@, Call("fetchPullRequestDiff", "",
                                            diffResult.success))]
        parsed == parseUnifiedDiff(diffResult.data)
        fetching == [logged EXCEPT !.files = parsed.files,
                                   !.pending = FilesToFetch(parsed.files)]
    IN  IF ~diffResult.success
        THEN ToFailReview(logged, "Failed to fetch PR diff", "REVIEW_DIFF_FETCH_FAILED")
        ELSE IF ~parsed.success
        THEN ToFailReview(logged, "Failed to parse PR diff", "REVIEW_DIFF_PARSE_FAILED")
        ELSE IF Len(parsed.files) = 0
        THEN ToCompleteReview(logged, <<"No reviewable files in this PR.">>, 0)
        ELSE [fetching EXCEPT !.pc = IF fetching.pending = {}
                                     THEN "parseAst" ELSE "fetchContents"]

FetchDiff(a, env) ==
    /\ att[a].pc = "fetchDiff"
    /\ \E diffResult \in env.diffResults :
         att' = [att EXCEPT ![a] = AfterFetchDiff(att[a], diffResult)]
    /\ UNCHANGED <<astVars, eval, reviews, reviewComments, posted>>

\* A batch awaited with Promise.all: a fetch that throws rejects the batch.
AfterFetchFileContent_ThrowAborts(self, i, res) ==
    LET path == self.files[i].filePath
        left == self.pending \ {i}
        logged == [self EXCEPT
                     !.pending = left,
                     !.fileContents = IF res = "ok" THEN (path :> "text") @@ @ ELSE @,
                     !.log = Append(@, Call("fetchFileContent", path, res = "ok"))]
    IN  IF res = "throw"
        THEN ToFailReview([logged EXCEPT !.pending = {}],
                          "Failed to fetch file contents", "REVIEW_DIFF_FETCH_FAILED")
        ELSE [logged EXCEPT !.pc = IF left = {} THEN "parseAst" ELSE "fetchContents"]

\* The fetchFileContent of file i settles: with the text ("ok"), with a
\* failure result ("err"), or by throwing ("throw", a rejected promise).  When
\* the last one settles the call goes on to initialize the parser.
AfterFetchFileContent(self, i, res) ==
    LET path == self.files[i].filePath
        left == self.pending \ {i}
    IN  [self EXCEPT
           !.pending = left,
           !.fileContents = IF res = "ok" THEN (path :> "text") @@ @ ELSE @,
           !.log = Append(@, Call("fetchFileContent", path, res = "ok")),
           !.pc = IF left = {} THEN "parseAst" ELSE "fetchContents"]

FetchFileContent(a, env) ==
    /\ att[a].pc = "fetchContents"
    /\ \E i \in att[a].pending, res \in env.contentResults :
         att' = [att EXCEPT ![a] = AfterFetchFileContent(att[a], i, res)]
    /\ UNCHANGED <<astVars, eval, reviews, reviewComments, posted>>

\* isSupportedLanguage(language) for a non-null language.
isSupportedLanguage(language) ==
    language \in {"typescript", "javascript", "python", "go", "rust", "java"}

\* The files parseAstContextsForFiles hands to parseFileAst: fetched, with a
\* supported language and a non-empty content.
FilesToParse(files, fileContents) ==
    { i \in FilesToFetch(files) :
        /\ files[i].language # "null"
        /\ isSupportedLanguage(files[i].language)
        /\ files[i].filePath \in DOMAIN fileContents
        /\ fileContents[files[i].filePath] # "" }

\* The structure parseFileAst extracts from the text of a file of the model:
\* one function over lines 1-10 and one import.
AstOf(path) ==
    [ scopes  |-> <<Scope("function", 3, 1, 10)>>,
      imports |-> <<[sourceLen |-> 5]>> ]

\* A context step for which a parser that does not initialize is fatal.
AfterParseAst_InitFatal(self, initOk, parsedOk) ==
    LET astContexts == [ p \in { self.files[i].filePath : i \in parsedOk } |-> AstOf(p) ]
        contextResult == buildReviewContext(self.files, astContexts, self.fileContents,
                                            DEFAULT_MAX_TOKENS_PER_CHUNK)
        chunks == IF contextResult.success THEN contextResult.data ELSE <<>>
        logged == [self EXCEPT
                     !.log = Append(@, Call("initializeAstParser", "", initOk))]
    IN  IF ~initOk
        THEN ToFailReview(logged, "Context enrichment failed", "REVIEW_LLM_FAILED")
        ELSE IF Len(chunks) = 0
        THEN ToCompleteReview(logged, <<"No reviewable content after filtering.">>, 0)
        ELSE [logged EXCEPT !.pc = "analyze", !.chunks = chunks, !.next = 1]

\* A context step that reports a diff without reviewable content as a failure.
AfterParseAst_EmptyIsFailure(self, initOk, parsedOk) ==
    LET paths == IF initOk THEN { self.files[i].filePath : i \in parsedOk } ELSE {}
        astContexts == [ p \in paths |-> AstOf(p) ]
        contextResult == buildReviewContext(self.files, astContexts, self.fileContents,
                                            DEFAULT_MAX_TOKENS_PER_CHUNK)
        logged == [self EXCEPT
                     !.log = Append(@, Call("initializeAstParser", "", initOk))]
    IN  IF ~contextResult.success
        THEN ToFailReview(logged, "Context enrichment failed", "REVIEW_LLM_FAILED")
        ELSE [logged EXCEPT !.pc = "analyze", !.chunks = contextResult.data,
                            !.next = 1]

\* The rest of enrichDiffWithContext: parseAstContextsForFiles (the parser
\* initializes or not; parseFileAst succeeds for the files of parsedOk) and
\* buildReviewContext; then executeReview up to the first analysis call or the
\* early completion.
AfterParseAst(self, initOk, parsedOk) ==
    LET paths == IF initOk THEN { self.files[i].filePath : i \in parsedOk } ELSE {}
        astContexts == [ p \in paths |-> AstOf(p) ]
        contextResult == buildReviewContext(self.files, astContexts, self.fileContents,
                                            DEFAULT_MAX_TOKENS_PER_CHUNK)
        chunks == IF contextResult.success THEN contextResult.data ELSE <<>>
        logged == [self EXCEPT
                     !.log = Append(@, Call("initializeAstParser", "", initOk))]
    IN  IF Len(chunks) = 0
        THEN ToCompleteReview(logged, <<"No reviewable content after filtering.">>, 0)
        ELSE [logged EXCEPT !.pc = "analyze", !.chunks = chunks, !.next = 1]

ParseAstAndBuildContext(a, env) ==
    /\ att[a].pc = "parseAst"
    /\ \E initOk \in env.astInitOk :
       \E parsedOk \in SUBSET FilesToParse(att[a].files, att[a].fileContents) :
         /\ (~initOk => parsedOk = {})
         /\ att' = [att EXCEPT ![a] = AfterParseAst(att[a], initOk, parsedOk)]
    /\ UNCHANGED <<astVars, eval, reviews, reviewComments, posted>>

\* mappingResult.success ? mappingResult.data : {mappedComments: [], unmappedFindings: []}
\* A property the object does not have reads as undefined, which is falsy.
MappingOrEmpty(mappingResult) ==
    IF "success" \in DOMAIN mappingResult /\ mappingResult.success
    THEN mappingResult.data
    ELSE [mappedComments |-> <<>>, unmappedFindings |-> <<>>]

\* A disposition taken from the first finding alone.
ReviewEvent_FirstFinding(findings) ==
    IF findings # <<>> /\ findings[1].severity = "CRITICAL"
    THEN "REQUEST_CHANGES" ELSE "COMMENT"

\* findings.some(f => f.severity === "CRITICAL") ? "REQUEST_CHANGES" : "COMMENT"
ReviewEvent(findings) ==
    IF \E i \in DOMAIN findings : findings[i].severity = "CRITICAL"
    THEN "REQUEST_CHANGES" ELSE "COMMENT"

\* The payload postAndSaveReviewResults gives to postPullRequestReview.
ReviewPayload(commitSha, findings, files, llmSummary) ==
    LET mapping == MappingOrEmpty(mapFindingsToGitHubComments(findings, files))
    IN  [ commitSha |-> commitSha,
          body      |-> buildReviewSummary(llmSummary, Len(mapping.mappedComments),
                                           mapping.unmappedFindings),
          event     |-> ReviewEvent(findings),
          comments  |-> [ i \in DOMAIN mapping.mappedComments |->
                            [ path |-> mapping.mappedComments[i].path,
                              line |-> mapping.mappedComments[i].line,
                              side |-> mapping.mappedComments[i].side,
                              body |-> mapping.mappedComments[i].formattedBody ] ] ]

\* The array postAndSaveReviewResults gives to saveReviewComments:
\* allFindingsForDb, one row each.
CommentsToSave(reviewId, findings, files) ==
    LET mapping == MappingOrEmpty(mapFindingsToGitHubComments(findings, files))
        allFindingsForDb ==
            [ i \in DOMAIN mapping.mappedComments |-> mapping.mappedComments[i].finding ]
            \o [ i \in DOMAIN mapping.unmappedFindings |->
                   mapping.unmappedFindings[i].finding ]
    IN  [ i \in DOMAIN allFindingsForDb |-> CommentRow(reviewId, allFindingsForDb[i]) ]

\* summaries.length > 0 ? summaries.join("\n\n") : "No significant issues found."
JoinSummaries(summaries) ==
    IF Len(summaries) > 0 THEN summaries ELSE <<"No significant issues found.">>

\* One iteration of analyzeAllChunks.  A failure issues failReview; the
\* success of the last chunk takes executeReview into postAndSaveReviewResults,
\* up to the issue of postPullRequestReview.
\* A chunk loop that skips a failed chunk and goes on.
AfterAnalyze_SkipFailedChunk(self, r) ==
    LET allFindings == self.allFindings \o r.data.findings
    IN  [self EXCEPT
           !.log = Append(@, Call("analyzeReviewChunk", "", r.success)),
           !.allFindings = allFindings,
           !.next = @ + 1,
           !.pc = IF self.next < Len(self.chunks) THEN "analyze" ELSE "postReview",
           !.review = <<ReviewPayload(self.request.commitSha, allFindings,
                                      self.files, JoinSummaries(self.summaries))>>,
           !.result = Ok(self.reviewId, Len(allFindings),
                         JoinSummaries(self.summaries))]

AfterAnalyze(self, r) ==
    LET logged == [self EXCEPT
                     !.log = Append(@, Call("analyzeReviewChunk", "", r.success))]
        allFindings == self.allFindings \o r.data.findings
        summaries == IF r.data.summary # ""
                     THEN Append(self.summaries, r.data.summary)
                     ELSE self.summaries
        more == [logged EXCEPT !.allFindings = allFindings,
                               !.summaries = summaries,
                               !.next = @ + 1]
        summary == JoinSummaries(summaries)
    IN  IF ~r.success
        THEN ToFailReview(logged, "LLM analysis failed", "REVIEW_LLM_FAILED")
        ELSE IF self.next < Len(self.chunks) THEN more
        ELSE [more EXCEPT
                !.pc = "postReview",
                !.review = <<ReviewPayload(self.request.commitSha, allFindings,
                                           self.files, summary)>>,
                !.result = Ok(self.reviewId, Len(allFindings), summary)]

AnalyzeChunk(a, env) ==
    /\ att[a].pc = "analyze"
    /\ \E r \in env.llmResults :
         att' = [att EXCEPT ![a] = AfterAnalyze(att[a], r)]
    /\ UNCHANGED <<astVars, eval, reviews, reviewComments, posted>>

\* postPullRequestReview settled; its failure is logged only, and
\* saveReviewComments is issued.
AfterPost(self, ok) ==
    [self EXCEPT
       !.pc = "saveComments",
       !.saveArg = <<CommentsToSave(self.reviewId, self.allFindings, self.files)>>,
       !.log = Append(@, Call("postPullRequestReview", "", ok))]

PostReview(a, env) ==
    /\ att[a].pc = "postReview"
    /\ \E ok \in env.postOk :
         /\ posted' = IF ok THEN posted \o att[a].review ELSE posted
         /\ att' = [att EXCEPT ![a] = AfterPost(att[a], ok)]
    /\ UNCHANGED <<astVars, eval, reviews, reviewComments>>

\* saveReviewComments settled; its failure is logged only, and
\* completeReview is issued.
AfterSave(self, ok) ==
    [self EXCEPT !.pc = "completeReview",
                 !.log = Append(@, Call("saveReviewComments", "", ok))]

\* saveReviewComments: ok without a query for an empty array, else createMany.
SaveReviewComments(a, env) ==
    /\ att[a].pc = "saveComments"
    /\ \E dbOk \in env.dbOk :
         LET rows == att[a].saveArg[1]
             ok == rows = <<>> \/ dbOk
         IN  /\ reviewComments' = IF ok THEN reviewComments \o rows ELSE reviewComments
             /\ att' = [att EXCEPT ![a] = AfterSave(att[a], ok)]
    /\ UNCHANGED <<astVars, eval, reviews, posted>>

\* completeReview or failReview settled: its result is not read, and
\* executeReview returns what it had set out to return.
AfterTerminalWrite(self, op, dbOk) ==
    Return([self EXCEPT !.log = Append(@, Call(op, self.reason, dbOk))], self.result)

CompleteReview(a, env) ==
    /\ att[a].pc = "completeReview"
    /\ \E dbOk \in env.dbOk :
         /\ reviews' = IF dbOk
                       THEN completeReview(reviews, att[a].reviewId,
                                att[a].result.summary, att[a].result.issuesFound)
                       ELSE reviews
         /\ att' = [att EXCEPT ![a] = AfterTerminalWrite(att[a], "completeReview", dbOk)]
    /\ UNCHANGED <<astVars, eval, reviewComments, posted>>

FailReview(a, env) ==
    /\ att[a].pc = "failReview"
    /\ \E dbOk \in env.dbOk :
         /\ reviews' = IF dbOk
                       THEN failReview(reviews, att[a].reviewId, att[a].reason)
                       ELSE reviews
         /\ att' = [att EXCEPT ![a] = AfterTerminalWrite(att[a], "failReview", dbOk)]
    /\ UNCHANGED <<astVars, eval, reviewComments, posted>>

\* One step of executeReview call a in environment env.
Step(a, env) ==
    \/ Start(a, env)
    \/ FindRepository(a, env)
    \/ FindExistingReview(a, env)
    \/ CreateReviewRecord(a, env)
    \/ UpdateStatusProcessing(a, env)
    \/ FetchDiff(a, env)
    \/ FetchFileContent(a, env)
    \/ ParseAstAndBuildContext(a, env)
    \/ AnalyzeChunk(a, env)
    \/ PostReview(a, env)
    \/ SaveReviewComments(a, env)
    \/ CompleteReview(a, env)
    \/ FailReview(a, env)

\* --------------------------------------------------------- specifications

DiffOk(rawDiff) == [success |-> TRUE, data |-> rawDiff]
DiffFailed == [success |-> FALSE, data |-> <<>>]
LlmOk(result) == [success |-> TRUE, data |-> result]
LlmFailed == [success |-> FALSE, data |-> LlmResult(<<>>, "")]

\* Every result analyzeReviewChunk can give within the bound: a failure, or
\* findings with a summary (an empty summary only with no findings).
LlmResults ==
    {LlmFailed, LlmOk(LlmResult(<<>>, ""))}
    \cup { LlmOk(LlmResult(fs, "s")) : fs \in SeqsUpTo(FindingUniverse, MaxFindings) }

\* One call of executeReview, over every input and every failure of its
\* collaborators.
PipelineEnv ==
    [ names          |-> {NameOR, NameOX, NameON, NameBare, NameDeep, NameNoRepo,
                          NameNoOwner},
      shas           |-> {"c1"},
      dbOk           |-> BOOLEAN,
      updateOk       |-> BOOLEAN,
      diffResults    |-> {DiffFailed, DiffOk(DiffBlank), DiffOk(DiffLockOnly),
                          DiffOk(DiffNoContent), DiffOk(DiffSmall),
                          DiffOk(DiffTwoChunks)},
      contentResults |-> {"ok", "err", "throw"},
      astInitOk      |-> BOOLEAN,
      llmResults     |-> LlmResults,
      postOk         |-> BOOLEAN ]

Next == Step(1, PipelineEnv)

Spec == Init /\ [][Next]_vars

\* NumAttempts calls of executeReview, started at any time and interleaved at
\* their awaits, over every failure of the lookups, the create and the terminal
\* writes, and a small set of inputs for the rest.
RaceEnv ==
    [ names          |-> {NameOR, NameOX},
      shas           |-> {"c1", "c2"},
      dbOk           |-> BOOLEAN,
      updateOk       |-> {TRUE},
      diffResults    |-> {DiffFailed, DiffOk(DiffSmall)},
      contentResults |-> {"ok"},
      astInitOk      |-> {TRUE},
      llmResults     |-> {LlmOk(LlmResult(<<FindingInDiff>>, "s"))},
      postOk         |-> {TRUE} ]

NextRace == \E a \in Attempts : Step(a, RaceEnv)

SpecRace == Init /\ [][NextRace]_vars

-----------------------------------------------------------------------------
\* The comment mapper applied to bounded inputs.

\* The parsed diffs the mapper is applied to.
MapperDiffs ==
    { parseUnifiedDiff(d).files :
        d \in {DiffSmall, DiffRename, DiffHunk10, DiffNoContent, DiffDeletion} }

MapperPaths == {"src/a.ts", "src/b.ts", "logo.bin", "src/zz.ts"}
MapperLines == {1, 2, 5, 15}

\* The findings the mapper is applied to.
MapperFindings ==
    { Finding(p, n, "BUGS", "WARNING", "m1", "fix") : p \in MapperPaths, n \in MapperLines }

InitMapper ==
    /\ reviews = <<>>
    /\ reviewComments = <<>>
    /\ posted = <<>>
    /\ att = [a \in Attempts |-> InitAttempt]
    /\ AstInit
    /\ eval \in { [ fn |-> "mapFindingsToGitHubComments", args |-> <<fs, files>>,
                    done |-> FALSE, out |-> <<>> ] :
                  fs \in SeqsUpTo(MapperFindings, MaxFindings), files \in MapperDiffs }

\* mapFindingsToGitHubComments(findings, parsedDiff)
ApplyMapper ==
    /\ eval.fn = "mapFindingsToGitHubComments"
    /\ ~eval.done
    /\ eval' = [eval EXCEPT !.done = TRUE,
                            !.out = mapFindingsToGitHubComments(eval.args[1], eval.args[2])]
    /\ UNCHANGED <<reviews, reviewComments, posted, att, astVars>>

NextMapper == ApplyMapper

SpecMapper == InitMapper /\ [][NextMapper]_vars

-----------------------------------------------------------------------------
\* The context builder applied to bounded inputs.

\* src/auth.ts modified: one line added after line 1.
BlockAuth ==
    <<DiffGit("src/auth.ts"), OldFile("src/auth.ts"), NewFile("src/auth.ts"),
      Hunk(1, 1, 1, 2), Ctx(5), Add(6)>>
\* src/b.ts modified: old line 5 removed with no context (the new side of the
\* hunk is empty), and old lines 8-9 replaced by new lines 7-9.
BlockB ==
    <<DiffGit("src/b.ts"), OldFile("src/b.ts"), NewFile("src/b.ts"),
      Hunk(5, 1, 4, 0), Del(4),
      Hunk(8, 2, 7, 3), Del(3), Del(3), Add(4), Add(4), Add(4)>>
BlockBinary == <<DiffGit("logo.bin"), Tag("binary")>>
BlockDeleted ==
    <<DiffGit("src/old.ts"), Tag("delfile"), OldFile("src/old.ts"), Tag("newnull"),
      Hunk(1, 2, 0, 0), Del(4), Del(4)>>
BlockRenameOnly ==
    <<DiffGit("src/ren.ts"), Ln("renfrom", "src/r0.ts", <<>>),
      Ln("rento", "src/ren.ts", <<>>)>>

ContextBlocks == {BlockA, BlockAuth, BlockB, BlockBinary, BlockDeleted, BlockRenameOnly}

RECURSIVE Flatten(_)
Flatten(ss) == IF ss = <<>> THEN <<>> ELSE Head(ss) \o Flatten(Tail(ss))

\* A file modified by one added line of 15,981 characters: with its path of
\* 9 characters the file is estimated at ceil(16000 / 4) tokens.
BlockOf4000(p) ==
    <<DiffGit(p), OldFile(p), NewFile(p), Hunk(1, 0, 1, 1), Add(15981)>>

\* The ten files of TenPaths, each modified that way.
DiffTenFiles == Flatten([ i \in DOMAIN TenPaths |-> BlockOf4000(TenPaths[i]) ])

\* The parsed diffs of up to MaxBlocks different file blocks, and the diff
\* of the ten files.
ContextDiffs ==
    { parseUnifiedDiff(Flatten(bs)).files :
        bs \in { s \in SeqsUpTo(ContextBlocks, MaxBlocks) :
                   \A i, j \in DOMAIN s : i # j => s[i] # s[j] } }
    \cup { parseUnifiedDiff(DiffTenFiles).files }

\* The structure of a file with nested scopes: a class, a method inside it, a
\* function inside it further down, a function after it; one import.
NestedAst ==
    [ scopes  |-> <<Scope("class", 3, 1, 10), Scope("method", 4, 2, 3),
                    Scope("function", 2, 5, 8), Scope("function", 2, 20, 30)>>,
      imports |-> <<[sourceLen |-> 5]>> ]

\* astContexts: no file has structure, or every TypeScript file has NestedAst.
ContextAsts ==
    { <<>>, [ p \in {"src/a.ts", "src/b.ts", "src/auth.ts"} |-> NestedAst ] }

\* options.maxTokensPerChunk
ContextBudgets == {1, 40, 60, 100, DEFAULT_MAX_TOKENS_PER_CHUNK}

InitContext ==
    /\ reviews = <<>>
    /\ reviewComments = <<>>
    /\ posted = <<>>
    /\ att = [a \in Attempts |-> InitAttempt]
    /\ AstInit
    /\ eval \in { [ fn |-> "buildReviewContext", args |-> <<files, asts, <<>>, max>>,
                    done |-> FALSE, out |-> <<>> ] :
                  files \in ContextDiffs, asts \in ContextAsts, max \in ContextBudgets }

\* buildReviewContext(parsedDiff, astContexts, fileContents, {maxTokensPerChunk})
ApplyContext ==
    /\ eval.fn = "buildReviewContext"
    /\ ~eval.done
    /\ eval' = [eval EXCEPT !.done = TRUE,
                            !.out = buildReviewContext(eval.args[1], eval.args[2],
                                                       eval.args[3], eval.args[4])]
    /\ UNCHANGED <<reviews, reviewComments, posted, att, astVars>>

NextContext == ApplyContext

SpecContext == InitContext /\ [][NextContext]_vars

-----------------------------------------------------------------------------
\* The diff parser applied to bounded inputs.

\* src/a.ts modified: a hunk with a blank context line inside it and a blank
\* context line as its last line (" " in the text), and the marker of a
\* missing final newline after the added line.
BlockBlankContext ==
    <<DiffGit("src/a.ts"), OldFile("src/a.ts"), NewFile("src/a.ts"),
      Hunk(1, 3, 1, 4), Ctx(5), Ctx(0), Add(8), Tag("nonl"), Ctx(0)>>
\* Files of non-reviewable paths: a binary image, a modified and an added
\* lockfile, a deleted minified script, a file renamed into a generated
\* directory, a binary source map, a vendored script.
BlocksNonReviewable ==
    <<DiffGit("x.png"), Tag("binary"),
      DiffGit("yarn.lock"), OldFile("yarn.lock"), NewFile("yarn.lock"),
      Hunk(1, 1, 1, 1), Del(3), Add(4),
      DiffGit("package-lock.json"), Tag("newfile"), Tag("oldnull"),
      NewFile("package-lock.json"), Hunk(0, 0, 1, 1), Add(2),
      DiffGit("app.min.js"), Tag("delfile"), OldFile("app.min.js"), Tag("newnull"),
      Hunk(1, 1, 0, 0), Del(9),
      DiffGit("src/generated/x.ts"), Ln("renfrom", "src/b.ts", <<>>),
      Ln("rento", "src/generated/x.ts", <<>>),
      DiffGit("app.js.map"), Tag("newfile"), Tag("binary"),
      DiffGit("node_modules/x.js"), OldFile("node_modules/x.js"),
      NewFile("node_modules/x.js"), Hunk(NULL, NULL, NULL, NULL), Del(1), Add(1)>>
\* Text that is no diff: a line of prose and a hunk without a file header,
\* and a "diff --git" line without the two paths.
BlockNoHeader == <<Tag("other"), Hunk(1, 1, 1, 1), Del(3), Add(4)>>
BlockNoPaths == <<DiffGit(""), Tag("other")>>
\* White space only: an empty line and a line of one space.
BlockWhitespace == <<Tag("blank"), Ctx(0)>>
\* src/b.ts created as a copy of src/a.ts with one line replaced, as
\* git diff --find-copies writes it: "copy from", "copy to", and the two
\* paths in the file header.
BlockCopy ==
    <<DiffGit("src/b.ts"), Ln("copyfrom", "src/a.ts", <<>>),
      Ln("copyto", "src/b.ts", <<>>), OldFile("src/a.ts"), NewFile("src/b.ts"),
      Hunk(1, 1, 1, 1), Del(3), Add(4)>>

ParserBlocks ==
    {BlockA, BlockB, BlockBlankContext, BlockBinary, BlockDeleted, BlockRenameOnly,
     BlocksNonReviewable, BlockNoHeader, BlockNoPaths, BlockWhitespace, BlockCopy}

\* rawDiff: up to MaxBlocks of the blocks, one after the other.
ParserDiffs == { Flatten(bs) : bs \in SeqsUpTo(ParserBlocks, MaxBlocks) }

InitParser ==
    /\ reviews = <<>>
    /\ reviewComments = <<>>
    /\ posted = <<>>
    /\ att = [a \in Attempts |-> InitAttempt]
    /\ AstInit
    /\ eval \in { [ fn |-> "parseUnifiedDiff", args |-> <<rawDiff>>,
                    done |-> FALSE, out |-> <<>> ] : rawDiff \in ParserDiffs }

\* parseUnifiedDiff(rawDiff)
ApplyParser ==
    /\ eval.fn = "parseUnifiedDiff"
    /\ ~eval.done
    /\ eval' = [eval EXCEPT !.done = TRUE, !.out = parseUnifiedDiff(eval.args[1])]
    /\ UNCHANGED <<reviews, reviewComments, posted, att, astVars>>

NextParser == ApplyParser

SpecParser == InitParser /\ [][NextParser]_vars

-----------------------------------------------------------------------------
\* The structure parser module: calls of initializeAstParser and parseFileAst,
\* one action per stretch of code between two awaits.

\* How the awaited Parser.init and the new Parser() after it can end.
InitOutcomes == {"resolves", "rejects", "newParserThrows"}

\* What initializeAstParser returns with a catch block that rethrows.
InitResult_NoCatch(outcome) == IF outcome = "resolves" THEN "ok" ELSE "thrown"

\* What initializeAstParser returns after its Parser.init settled: the try
\* block returns ok, the catch block AST_INIT_FAILED.
InitResult(outcome) == IF outcome = "resolves" THEN "ok" ELSE "AST_INIT_FAILED"

\* initializeAstParser(), up to its return when initialized is set, or up to
\* await Parser.init(..).
CallInitializeAstParser(c) ==
    /\ astCalls[c].pc = "idle"
    /\ astCalls' = [astCalls EXCEPT ![c] =
           IF initialized
           THEN [@ EXCEPT !.op = "initializeAstParser", !.pc = "done", !.result = "ok"]
           ELSE [@ EXCEPT !.op = "initializeAstParser", !.pc = "Parser.init"]]
    /\ UNCHANGED <<initialized, parserInstance, backend>>
    /\ UNCHANGED <<reviews, reviewComments, posted, att, eval>>

\* parseFileAst(..), up to its first await that waits for something: of
\* Parser.init inside initializeAstParser() when the module is not
\* initialized, else of loadLanguageGrammar(..).  With initialized set and
\* parserInstance null (a state no run reaches: the two are written
\* together) initializeAstParser returns ok at once and the null test
\* returns AST_INIT_FAILED.
CallParseFileAst(c) ==
    /\ astCalls[c].pc = "idle"
    /\ astCalls' = [astCalls EXCEPT ![c] =
           IF ~initialized
           THEN [@ EXCEPT !.op = "parseFileAst", !.uninitialized = TRUE,
                          !.pc = "Parser.init"]
           ELSE IF parserInstance = 0
           THEN [@ EXCEPT !.op = "parseFileAst", !.uninitialized = TRUE,
                          !.pc = "done", !.result = "AST_INIT_FAILED"]
           ELSE [@ EXCEPT !.op = "parseFileAst", !.pc = "loadLanguageGrammar"]]
    /\ UNCHANGED <<initialized, parserInstance, backend>>
    /\ UNCHANGED <<reviews, reviewComments, posted, att, eval>>

\* The rest of initializeAstParser after await Parser.init: parserInstance =
\* new Parser(), initialized = true, or the catch block; then, in
\* parseFileAst, the return of a failed initResult or the null test and the
\* call of loadLanguageGrammar.
SettleParserInit(c, outcome) ==
    /\ astCalls[c].pc = "Parser.init"
    /\ backend' = [inits   |-> IF outcome = "rejects" THEN backend.inits
                               ELSE backend.inits + 1,
                   parsers |-> IF outcome = "resolves" THEN backend.parsers + 1
                               ELSE backend.parsers]
    /\ parserInstance' = IF outcome = "resolves" THEN backend.parsers + 1
                         ELSE parserInstance
    /\ initialized' = IF outcome = "resolves" THEN TRUE ELSE initialized
    /\ astCalls' = [astCalls EXCEPT ![c] =
           IF astCalls[c].op = "initializeAstParser" \/ InitResult(outcome) # "ok"
           THEN [@ EXCEPT !.pc = "done", !.initOutcome = outcome,
                          !.result = InitResult(outcome)]
           ELSE IF parserInstance' = 0
           THEN [@ EXCEPT !.pc = "done", !.initOutcome = outcome,
                          !.result = "AST_INIT_FAILED"]
           ELSE [@ EXCEPT !.pc = "loadLanguageGrammar", !.initOutcome = outcome]]
    /\ UNCHANGED <<reviews, reviewComments, posted, att, eval>>

\* How the try block of parseFileAst can go: setLanguage throws, parse
\* throws, parse returns null, the extraction throws, or all succeed.
ParseOutcomes == {"ok", "setLanguageThrows", "parseThrows", "nullTree", "extractionThrows"}

\* tree is non-null when the try block is left.
TreeObtained(outcome) == outcome \in {"ok", "extractionThrows"}

\* What parseFileAst returns from its try block: ok, or AST_PARSE_FAILED for
\* a null tree and from the catch block.
ParseResult(outcome) == IF outcome = "ok" THEN "ok" ELSE "AST_PARSE_FAILED"

\* A release of the tree on the success path only.
TreeReleases_OnlyOnSuccess(outcome) == IF outcome = "ok" THEN 1 ELSE 0

\* finally { tree?.delete() }: the number of releases on leaving the try block.
TreeReleases(outcome) == IF TreeObtained(outcome) THEN 1 ELSE 0

\* The rest of parseFileAst after await loadLanguageGrammar(..): the grammar
\* is null, or parserInstance.setLanguage, parse and the extraction, with the
\* catch and finally blocks.
SettleLoadGrammar(c, grammarOk, outcome) ==
    /\ astCalls[c].pc = "loadLanguageGrammar"
    /\ astCalls' = [astCalls EXCEPT ![c] =
           IF ~grammarOk
           THEN [@ EXCEPT !.pc = "done", !.result = "AST_LANGUAGE_NOT_SUPPORTED"]
           ELSE [@ EXCEPT !.pc = "done", !.used = parserInstance,
                          !.parse = outcome,
                          !.released = TreeReleases(outcome),
                          !.result = ParseResult(outcome)]]
    /\ UNCHANGED <<initialized, parserInstance, backend>>
    /\ UNCHANGED <<reviews, reviewComments, posted, att, eval>>

InitAst ==
    /\ reviews = <<>>
    /\ reviewComments = <<>>
    /\ posted = <<>>
    /\ att = [a \in Attempts |-> InitAttempt]
    /\ eval = NoEval
    /\ AstInit

NextAst ==
    \E c \in AstCallers :
        \/ CallInitializeAstParser(c)
        \/ CallParseFileAst(c)
        \/ \E outcome \in InitOutcomes : SettleParserInit(c, outcome)
        \/ \E grammarOk \in BOOLEAN, outcome \in ParseOutcomes :
               SettleLoadGrammar(c, grammarOk, outcome)

SpecAst == InitAst /\ [][NextAst]_vars

\* The retry loop of the text-analysis client: one call of callWithRetry,
\* held in eval, a step for each of its awaits.

DEFAULT_MAX_RETRIES == 3
BASE_RETRY_DELAY_MS == 1000

\* How client.messages.create settles: a response with a text block, a
\* response without one, or one of the errors mapSdkError tells apart (a
\* BadRequestError whose message names the context length, and one whose
\* message does not) and any other thrown value.
SdkOutcomes ==
    {"text", "noText", "RateLimitError", "APIConnectionTimeoutError",
     "BadRequestError:context length", "BadRequestError", "InternalServerError",
     "other"}

mapSdkError(error) ==
    CASE error = "RateLimitError"                 -> "LLM_RATE_LIMITED"
      [] error = "APIConnectionTimeoutError"      -> "LLM_TIMEOUT"
      [] error = "BadRequestError:context length" -> "LLM_CONTEXT_TOO_LONG"
      [] OTHER                                    -> "LLM_UNKNOWN_ERROR"

\* A test that takes every error for retryable.
isRetryableError_Every(error) == TRUE

isRetryableError(error) ==
    error \in {"LLM_RATE_LIMITED", "LLM_TIMEOUT", "LLM_UNKNOWN_ERROR"}

\* ok({responseText, ..}) and err(error) of callWithRetry.
RawOk == [success |-> TRUE, error |-> ""]
RawErr(error) == [success |-> FALSE, error |-> error]

\* callWithRetry at its entry, attempt 0, about to call the SDK (maxRetries
\* is not negative).
RetryCall(maxRetries) ==
    [ fn |-> "callWithRetry", args |-> <<maxRetries>>, done |-> FALSE,
      out       |-> RawErr(""),
      pc        |-> "create",
      attempt   |-> 0,
      lastError |-> "LLM_UNKNOWN_ERROR",
      calls     |-> <<>>,     \* how each client.messages.create settled
      slept     |-> <<>> ]    \* the delays awaited

\* The call returns r.
RetryReturn(self, r) == [self EXCEPT !.pc = "done", !.done = TRUE, !.out = r]

\* The end of an iteration that did not return: attempt++, then the loop
\* test; the next iteration begins with its sleep, the exit returns
\* err(lastError).
ContinueRetryLoop(self) ==
    LET next == [self EXCEPT !.attempt = @ + 1]
    IN  IF next.attempt <= self.args[1]
        THEN [next EXCEPT !.pc = "sleep"]
        ELSE RetryReturn(next, RawErr(next.lastError))

\* callWithRetry from the settling of client.messages.create to its next
\* await or its return.
AfterSdkCreate(self, outcome) ==
    LET called == [self EXCEPT !.calls = Append(@, outcome)]
    IN  IF outcome = "text" THEN RetryReturn(called, RawOk)
        ELSE IF outcome = "noText"
        THEN ContinueRetryLoop([called EXCEPT !.lastError = "LLM_INVALID_RESPONSE"])
        ELSE LET mappedError == mapSdkError(outcome)
                 failed == [called EXCEPT !.lastError = mappedError]
             IN  IF ~isRetryableError(mappedError)
                 THEN RetryReturn(failed, RawErr(mappedError))
                 ELSE ContinueRetryLoop(failed)

InitRetry ==
    /\ reviews = <<>>
    /\ reviewComments = <<>>
    /\ posted = <<>>
    /\ att = [a \in Attempts |-> InitAttempt]
    /\ AstInit
    /\ eval \in { RetryCall(maxRetries) : maxRetries \in 0..DEFAULT_MAX_RETRIES }

\* await client.messages.create(..) settles.
SdkCreate(outcome) ==
    /\ eval.fn = "callWithRetry"
    /\ eval.pc = "create"
    /\ eval' = AfterSdkCreate(eval, outcome)
    /\ UNCHANGED <<reviews, reviewComments, posted, att, astVars>>

\* await sleep(delayMs) resolves.
RetrySleep ==
    /\ eval.fn = "callWithRetry"
    /\ eval.pc = "sleep"
    /\ eval' = [eval EXCEPT !.pc = "create",
                            !.slept = Append(@, BASE_RETRY_DELAY_MS
                                                  * 3 ^ (eval.attempt - 1))]
    /\ UNCHANGED <<reviews, reviewComments, posted, att, astVars>>

NextRetry ==
    \/ \E outcome \in SdkOutcomes : SdkCreate(outcome)
    \/ RetrySleep

\* The timer of sleep fires and the SDK's promise settles: a step that is
\* enabled is taken.
SpecRetry == InitRetry /\ [][NextRetry]_vars /\ WF_vars(NextRetry)

\* ------------------------------------------------------------- properties

Done(a) == att[a].pc = "done"

\* Call a made the collaborator call op.
Called(a, op) == \E i \in DOMAIN att[a].log : att[a].log[i].op = op

\* The last collaborator call of call a.
LastCall(a) == att[a].log[Len(att[a].log)]

\* Call a reached createReviewRecord and was refused by the unique key.
RejectedByUniqueKey(a) ==
    \E i \in DOMAIN att[a].log :
        att[a].log[i] = Call("createReviewRecord", "P2002", FALSE)

\* Call a touched neither the source-hosting service nor the analysis service.
NoExternalCall(a) ==
    /\ ~Called(a, "fetchPullRequestDiff")
    /\ ~Called(a, "fetchFileContent")
    /\ ~Called(a, "analyzeReviewChunk")
    /\ ~Called(a, "postPullRequestReview")

\* The review records of a request's (repositoryFullName, commitSha).
RecordsFor(request) ==
    { id \in DOMAIN reviews :
        /\ reviews[id].commitSha = request.commitSha
        /\ \E repo \in Repositories :
             /\ repo.fullName = request.repositoryFullName
             /\ repo.id = reviews[id].repositoryId }

\* Call b is the second of two calls in sequence with the request of call a.
InSequence(a, b) ==
    /\ a # b
    /\ Done(a) /\ Done(b)
    /\ a \in att[b].after
    /\ att[a].request = att[b].request

C2_OneRecordPerCommit ==
    /\ \A i, j \in DOMAIN reviews :
           (/\ reviews[i].repositoryId = reviews[j].repositoryId
            /\ reviews[i].commitSha = reviews[j].commitSha) => i = j
    /\ \A a, b \in Attempts :
           (/\ att[a].reviewId # 0 /\ att[b].reviewId # 0
            /\ att[a].repositoryId = att[b].repositoryId
            /\ att[a].request.commitSha = att[b].request.commitSha) => a = b
    /\ \A a \in Attempts :
           RejectedByUniqueKey(a) =>
               /\ Done(a)
               /\ att[a].outcome.kind = "REVIEW_DB_ERROR"
               /\ att[a].reviewId = 0
               /\ NoExternalCall(a)

\* Two calls for one commit both passed the existence check; one created the
\* record and the other was refused by the unique key.
C2_Witness ==
    \E a, b \in Attempts :
        /\ a # b
        /\ RejectedByUniqueKey(a)
        /\ Call("findExistingReviewByCommitSha", "", TRUE) \in Range(att[a].log)
        /\ Call("findExistingReviewByCommitSha", "", TRUE) \in Range(att[b].log)
        /\ att[b].reviewId # 0
        /\ att[b].repositoryId = att[a].repositoryId
        /\ att[b].request.commitSha = att[a].request.commitSha

\* Call a is at its idempotency check and a record exists for its commit.
AtCheckWithRecord(a) ==
    /\ att[a].pc = "findExisting"
    /\ \E id \in DOMAIN reviews :
           /\ reviews[id].repositoryId = att[a].repositoryId
           /\ reviews[id].commitSha = att[a].request.commitSha

\* C3: when a record exists for (repository, commitSha) at the idempotency
\* check, the call returns at once, already-exists when the check answers (and
\* db-error when the query fails), having created no record, changed no
\* record, and called neither the source-hosting nor the analysis service.
C3_ExistingReviewNoSideEffects ==
    [][\A a \in Attempts :
          (AtCheckWithRecord(a) /\ att'[a] # att[a]) =>
              /\ att'[a].pc = "done"
              /\ att'[a].outcome.kind =
                     IF att'[a].log[Len(att'[a].log)].ok
                     THEN "REVIEW_ALREADY_EXISTS" ELSE "REVIEW_DB_ERROR"
              /\ att'[a].reviewId = 0
              /\ reviews' = reviews
              /\ reviewComments' = reviewComments
              /\ posted' = posted
              /\ \A i \in DOMAIN att'[a].log :
                     att'[a].log[i].op \in {"findRepositoryByFullName",
                                            "findExistingReviewByCommitSha"}]_vars

\* A call returned already-exists for a commit whose record another call made.
C3_Witness ==
    \E a, b \in Attempts :
        /\ a # b
        /\ Done(a)
        /\ att[a].outcome.kind = "REVIEW_ALREADY_EXISTS"
        /\ att[b].reviewId # 0
        /\ att[b].repositoryId = att[a].repositoryId
        /\ att[b].request.commitSha = att[a].request.commitSha
        /\ NoExternalCall(a)

\* The persisted status of the record call a created.
StatusOf(a) == reviews[att[a].reviewId].status

Terminal == {"COMPLETED", "FAILED"}

\* C4 as stated: a record's status goes PENDING, PROCESSING, then one of
\* COMPLETED or FAILED, never from PENDING to a terminal status, and the diff
\* is not fetched while the persisted status is PENDING.
C4_AsStated ==
    [][/\ \A id \in DOMAIN reviews' :
             LET new == reviews'[id].status
             IN  IF id \notin DOMAIN reviews THEN new = "PENDING"
                 ELSE \/ new = reviews[id].status
                      \/ reviews[id].status = "PENDING" /\ new = "PROCESSING"
                      \/ reviews[id].status = "PROCESSING" /\ new \in Terminal
       /\ \A a \in Attempts : att[a].pc = "fetchDiff" => StatusOf(a) # "PENDING"]_vars

\* C4 amended: a record starts PENDING and its status moves only forward to
\* PROCESSING and then to one of COMPLETED or FAILED, which is final; when the
\* update to PROCESSING is accepted the diff is fetched under PROCESSING, and
\* when that update fails, which is only logged, the diff is fetched while
\* the status is still PENDING and the record goes from PENDING to its
\* terminal status.
C4_StatusPath ==
    [][/\ \A id \in DOMAIN reviews' :
             LET new == reviews'[id].status
             IN  IF id \notin DOMAIN reviews THEN new = "PENDING"
                 ELSE \/ new = reviews[id].status
                      \/ reviews[id].status = "PENDING" /\ new = "PROCESSING"
                      \/ reviews[id].status = "PROCESSING" /\ new \in Terminal
                      \/ /\ reviews[id].status = "PENDING" /\ new \in Terminal
                         /\ \E a \in Attempts :
                              /\ att[a].reviewId = id
                              /\ Call("updateReviewStatus", "PROCESSING", FALSE)
                                     \in Range(att[a].log)
       /\ \A a \in Attempts :
             att[a].pc = "fetchDiff" =>
                 StatusOf(a) = IF LastCall(a).ok THEN "PROCESSING" ELSE "PENDING"]_vars

\* A record reached a terminal status after its update to PROCESSING was
\* accepted and the diff was fetched.
C4_Witness ==
    \E a \in Attempts :
        /\ Done(a)
        /\ Call("updateReviewStatus", "PROCESSING", TRUE) \in Range(att[a].log)
        /\ Called(a, "fetchPullRequestDiff")
        /\ StatusOf(a) \in Terminal

\* Call a had an analysis call fail.
AnalysisFailed(a) ==
    Call("analyzeReviewChunk", "", FALSE) \in Range(att[a].log)

\* C5: when the analysis of a chunk fails, the call analyzes no later chunk,
\* posts no review, saves no comments, issues failReview as its one remaining
\* operation (the record is FAILED once that write is accepted) and returns
\* llm-failed, whatever the earlier chunks returned.
C5_AnalysisFailureAborts ==
    \A a \in Attempts :
        AnalysisFailed(a) =>
            /\ \A i, j \in DOMAIN att[a].log :
                   (att[a].log[i] = Call("analyzeReviewChunk", "", FALSE) /\ i < j)
                       => att[a].log[j].op = "failReview"
            /\ ~Called(a, "postPullRequestReview")
            /\ ~Called(a, "saveReviewComments")
            /\ \A i \in DOMAIN reviewComments :
                   reviewComments[i].reviewId # att[a].reviewId
            /\ posted = <<>>
            /\ att[a].pc \in {"failReview", "done"}
            /\ att[a].reason = "LLM analysis failed"
            /\ Done(a) =>
                   /\ att[a].outcome.kind = "REVIEW_LLM_FAILED"
                   /\ LastCall(a).op = "failReview"
                   /\ LastCall(a).arg = "LLM analysis failed"
                   /\ LastCall(a).ok => StatusOf(a) = "FAILED"

\* The second chunk failed after the first returned findings, and the call
\* returned llm-failed with its record FAILED.
C5_Witness ==
    \E a \in Attempts :
        /\ Done(a)
        /\ AnalysisFailed(a)
        /\ Call("analyzeReviewChunk", "", TRUE) \in Range(att[a].log)
        /\ att[a].allFindings # <<>>
        /\ att[a].outcome.kind = "REVIEW_LLM_FAILED"
        /\ StatusOf(a) = "FAILED"

\* The rows that hold the findings the analysis returned to call a, one each.
FindingRows(a) ==
    [ i \in DOMAIN att[a].allFindings |->
        CommentRow(att[a].reviewId, att[a].allFindings[i]) ]

\* C6 as stated: when postPullRequestReview fails the call still saves the
\* findings, completes the review and returns success, and produces neither a
\* FAILED status nor an error.
C6_AsStated ==
    \A a \in Attempts :
        (Done(a) /\ Call("postPullRequestReview", "", FALSE) \in Range(att[a].log)) =>
            /\ Called(a, "saveReviewComments")
            /\ SameBag(att[a].saveArg[1], FindingRows(a))
            /\ att[a].outcome.kind = "ok"
            /\ LastCall(a).op = "completeReview"
            /\ LastCall(a).ok => StatusOf(a) = "COMPLETED"
            /\ StatusOf(a) # "FAILED"

\* C7 as stated: the comments given to saveReviewComments are the findings
\* the analysis returned, one comment per finding.
C7_AsStated ==
    \A a \in Attempts :
        att[a].saveArg # <<>> => SameBag(att[a].saveArg[1], FindingRows(a))

\* C8 as stated: the posted review has one inline comment per finding the
\* mapper places, with the mapper's path, line, side and body, and its summary
\* lists every finding the mapper does not place.
C8_AsStated ==
    \A a \in Attempts :
        att[a].review # <<>> =>
            LET mapping == mapFindingsToGitHubComments(att[a].allFindings, att[a].files)
                mapped == mapping.mappedComments
                unmapped == mapping.unmappedFindings
                review == att[a].review[1]
            IN  /\ SameBag(review.comments,
                           [ i \in DOMAIN mapped |->
                               [ path |-> mapped[i].path, line |-> mapped[i].line,
                                 side |-> mapped[i].side,
                                 body |-> mapped[i].formattedBody ] ])
                /\ Len(review.body.additional) = Len(unmapped)
                /\ \A i \in DOMAIN unmapped :
                       \E j \in DOMAIN review.body.additional :
                           /\ review.body.additional[j].filePath
                                  = unmapped[i].finding.filePath
                           /\ review.body.additional[j].lineNumber
                                  = unmapped[i].finding.lineNumber
                           /\ review.body.additional[j].message
                                  = unmapped[i].finding.message

\* C9: when the fetch of the diff fails, the call issues failReview with the
\* reason as its one remaining operation (the record is FAILED with the reason
\* in its summary once that write is accepted), returns diff-fetch-failed, and
\* fetches no file content, analyzes nothing and posts nothing.
C9_DiffFetchFailure ==
    \A a \in Attempts :
        Call("fetchPullRequestDiff", "", FALSE) \in Range(att[a].log) =>
            /\ att[a].pc \in {"failReview", "done"}
            /\ att[a].reason = "Failed to fetch PR diff"
            /\ ~Called(a, "fetchFileContent")
            /\ ~Called(a, "analyzeReviewChunk")
            /\ ~Called(a, "postPullRequestReview")
            /\ att[a].pending = {}
            /\ posted = <<>>
            /\ Done(a) =>
                   /\ att[a].outcome.kind = "REVIEW_DIFF_FETCH_FAILED"
                   /\ LastCall(a) \in { Call("failReview", "Failed to fetch PR diff", ok) :
                                          ok \in BOOLEAN }
                   /\ LastCall(a).ok =>
                          /\ StatusOf(a) = "FAILED"
                          /\ reviews[att[a].reviewId].summary
                                 = <<"Review failed: ", "Failed to fetch PR diff">>

\* The fetch failed and the call returned diff-fetch-failed with its record
\* FAILED.
C9_Witness ==
    \E a \in Attempts :
        /\ Done(a)
        /\ Call("fetchPullRequestDiff", "", FALSE) \in Range(att[a].log)
        /\ att[a].outcome.kind = "REVIEW_DIFF_FETCH_FAILED"
        /\ StatusOf(a) = "FAILED"

\* Call a fetched a diff whose text is white space only.
FetchedBlankDiff(a) ==
    /\ Call("fetchPullRequestDiff", "", TRUE) \in Range(att[a].log)
    /\ \A i \in DOMAIN att[a].diff : IsWhitespaceLine(att[a].diff[i])

\* C10: when the fetched diff is empty once trimmed, the call issues
\* failReview as its one remaining operation (the record is FAILED once that
\* write is accepted), returns diff-parse-failed, and analyzes nothing and
\* posts nothing; no other diff gives diff-parse-failed.
C10_DiffParseFailure ==
    \A a \in Attempts :
        /\ FetchedBlankDiff(a) =>
            /\ att[a].pc \in {"failReview", "done"}
            /\ att[a].reason = "Failed to parse PR diff"
            /\ ~Called(a, "analyzeReviewChunk")
            /\ ~Called(a, "postPullRequestReview")
            /\ posted = <<>>
            /\ Done(a) =>
                   /\ att[a].outcome.kind = "REVIEW_DIFF_PARSE_FAILED"
                   /\ LastCall(a).op = "failReview"
                   /\ LastCall(a).ok => StatusOf(a) = "FAILED"
        /\ att[a].outcome.kind = "REVIEW_DIFF_PARSE_FAILED" => FetchedBlankDiff(a)

\* A diff of white space was fetched and the call returned diff-parse-failed
\* with its record FAILED.
C10_Witness ==
    \E a \in Attempts :
        /\ Done(a)
        /\ FetchedBlankDiff(a)
        /\ att[a].diff # <<>>
        /\ att[a].outcome.kind = "REVIEW_DIFF_PARSE_FAILED"
        /\ StatusOf(a) = "FAILED"

\* Call a fetched a diff that parses to no file.
ParsedZeroFiles(a) ==
    /\ Call("fetchPullRequestDiff", "", TRUE) \in Range(att[a].log)
    /\ parseUnifiedDiff(att[a].diff).success
    /\ parseUnifiedDiff(att[a].diff).files = <<>>

\* C11: when the parsed diff has no file, the call issues completeReview with
\* the no-reviewable-files summary and zero issues as its one remaining
\* operation (the record is COMPLETED with them once that write is accepted)
\* and returns success with issuesFound = 0, and it fetches no file content,
\* analyzes nothing and posts nothing.
C11_NoFilesCompletes ==
    \A a \in Attempts :
        ParsedZeroFiles(a) =>
            /\ att[a].pc \in {"completeReview", "done"}
            /\ att[a].result =
                   Ok(att[a].reviewId, 0, <<"No reviewable files in this PR.">>)
            /\ ~Called(a, "fetchFileContent")
            /\ ~Called(a, "initializeAstParser")
            /\ ~Called(a, "analyzeReviewChunk")
            /\ ~Called(a, "postPullRequestReview")
            /\ ~Called(a, "saveReviewComments")
            /\ posted = <<>>
            /\ Done(a) =>
                   /\ att[a].outcome = att[a].result
                   /\ LastCall(a).op = "completeReview"
                   /\ StatusOf(a) # "FAILED"
                   /\ LastCall(a).ok =>
                          /\ StatusOf(a) = "COMPLETED"
                          /\ reviews[att[a].reviewId].summary
                                 = <<"No reviewable files in this PR.">>
                          /\ reviews[att[a].reviewId].issuesFound = 0

\* A diff of one lockfile was fetched and the call returned success with no
\* issue and its record COMPLETED.
C11_Witness ==
    \E a \in Attempts :
        /\ Done(a)
        /\ ParsedZeroFiles(a)
        /\ att[a].diff = DiffLockOnly
        /\ att[a].outcome.kind = "ok"
        /\ att[a].outcome.issuesFound = 0
        /\ StatusOf(a) = "COMPLETED"

\* File i of call a's parsed diff can be reviewed: it is not binary, not
\* deleted, and has a hunk.
Reviewable(a, i) ==
    /\ ~att[a].files[i].isBinary
    /\ att[a].files[i].changeType # "deleted"
    /\ Len(att[a].files[i].hunks) > 0

\* Call a built its chunks from a diff none of whose files can be reviewed.
BuiltNoChunks(a) ==
    /\ Called(a, "initializeAstParser")
    /\ \A i \in DOMAIN att[a].files : ~Reviewable(a, i)

\* C12: when every parsed file is binary, deleted or without hunks, chunk
\* building yields no chunk and the call issues completeReview with the
\* no-reviewable-content summary as its one remaining operation (the record is
\* COMPLETED once that write is accepted), returns success with issuesFound = 0,
\* analyzes nothing, posts nothing, and reports no failure; with any
\* reviewable file there is a chunk.
C12_NoChunksCompletes ==
    \A a \in Attempts :
        /\ BuiltNoChunks(a) =>
            /\ att[a].chunks = <<>>
            /\ att[a].pc \in {"completeReview", "done"}
            /\ att[a].result =
                   Ok(att[a].reviewId, 0, <<"No reviewable content after filtering.">>)
            /\ ~Called(a, "analyzeReviewChunk")
            /\ ~Called(a, "postPullRequestReview")
            /\ ~Called(a, "saveReviewComments")
            /\ posted = <<>>
            /\ Done(a) =>
                   /\ att[a].outcome = att[a].result
                   /\ LastCall(a).op = "completeReview"
                   /\ StatusOf(a) # "FAILED"
                   /\ LastCall(a).ok =>
                          /\ StatusOf(a) = "COMPLETED"
                          /\ reviews[att[a].reviewId].summary
                                 = <<"No reviewable content after filtering.">>
        /\ (Called(a, "initializeAstParser") /\ ~BuiltNoChunks(a)) =>
               att[a].chunks # <<>>

\* The diff of a binary file, a deleted file and a file without hunks was
\* fetched, the content of the last was fetched, and the call returned success
\* with no issue and its record COMPLETED.
C12_Witness ==
    \E a \in Attempts :
        /\ Done(a)
        /\ BuiltNoChunks(a)
        /\ Len(att[a].files) = 3
        /\ Called(a, "fetchFileContent")
        /\ att[a].outcome.kind = "ok"
        /\ att[a].outcome.issuesFound = 0
        /\ StatusOf(a) = "COMPLETED"

\* The analysis returned to call a a finding of severity CRITICAL, in any chunk.
HasCriticalFinding(a) ==
    \E i \in DOMAIN att[a].allFindings : att[a].allFindings[i].severity = "CRITICAL"

\* C13: the review a call posts has disposition REQUEST_CHANGES when some
\* finding the analysis returned, in any chunk and mapped or not, is CRITICAL,
\* and COMMENT otherwise; the review the service accepted is the one posted.
C13_Disposition ==
    /\ \A a \in Attempts :
           att[a].review # <<>> =>
               att[a].review[1].event =
                   IF HasCriticalFinding(a) THEN "REQUEST_CHANGES" ELSE "COMMENT"
    /\ \A k \in DOMAIN posted :
           \E a \in Attempts : att[a].review = <<posted[k]>>

\* A review was posted with REQUEST_CHANGES for a diff of two chunks whose
\* only CRITICAL finding is not the first and is on a file outside the diff.
C13_Witness ==
    \E a \in Attempts :
        /\ posted = att[a].review
        /\ posted # <<>>
        /\ posted[1].event = "REQUEST_CHANGES"
        /\ Len(att[a].chunks) = 2
        /\ att[a].allFindings[1].severity # "CRITICAL"
        /\ Count(att[a].allFindings, FindingElsewhere) = 1

\* The paths whose content fetch call a has seen settle, and those that gave
\* the content.
SettledFetches(a) ==
    { att[a].log[i].arg : i \in { j \in DOMAIN att[a].log :
                                    att[a].log[j].op = "fetchFileContent" } }
CollectedFetches(a) ==
    { att[a].log[i].arg : i \in { j \in DOMAIN att[a].log :
                                    /\ att[a].log[j].op = "fetchFileContent"
                                    /\ att[a].log[j].ok } }

\* The file contexts in the chunks of call a.
ChunkFiles(a) ==
    UNION { Range(att[a].chunks[c].files) : c \in DOMAIN att[a].chunks }

\* The chunks of call a hold every reviewable file of its diff once, with the
\* hunks of the diff, and nothing else.
ChunksHoldReviewableFiles(a) ==
    /\ \A i \in DOMAIN att[a].files :
           Reviewable(a, i) =>
               \E fc \in ChunkFiles(a) :
                   /\ fc.filePath = att[a].files[i].filePath
                   /\ [ k \in DOMAIN fc.enrichedHunks |-> fc.enrichedHunks[k].hunk ]
                          = att[a].files[i].hunks
    /\ SeqSum([ c \in DOMAIN att[a].chunks |-> Len(att[a].chunks[c].files) ])
           = Cardinality({ i \in DOMAIN att[a].files : Reviewable(a, i) })

\* C14: a content fetch is issued, once, for every non-binary, non-deleted
\* file of the parsed diff, and all are awaited before the call goes on; the
\* contents collected are those of the fetches that succeeded, whichever
\* others failed or threw; the chunks hold every reviewable file with its
\* hunks; and the call fails only when an analysis call fails.
C14_ContentFetchesIsolated ==
    \A a \in Attempts :
        /\ (att[a].files # <<>>) =>
               /\ SettledFetches(a) \cup { att[a].files[i].filePath : i \in att[a].pending }
                      = { att[a].files[i].filePath :
                            i \in { j \in DOMAIN att[a].files :
                                      /\ ~att[a].files[j].isBinary
                                      /\ att[a].files[j].changeType # "deleted" } }
               /\ \A i \in att[a].pending : att[a].files[i].filePath \notin SettledFetches(a)
               /\ \A i, j \in DOMAIN att[a].log :
                      (/\ att[a].log[i].op = "fetchFileContent"
                       /\ att[a].log[j].op = "fetchFileContent"
                       /\ att[a].log[i].arg = att[a].log[j].arg) => i = j
               /\ att[a].pc # "fetchContents" => att[a].pending = {}
               /\ DOMAIN att[a].fileContents = CollectedFetches(a)
        /\ (Called(a, "initializeAstParser") /\ ~BuiltNoChunks(a)) =>
               /\ ChunksHoldReviewableFiles(a)
               /\ Called(a, "analyzeReviewChunk") \/ att[a].pc = "analyze"
        /\ Called(a, "fetchFileContent") =>
               /\ att[a].pc = "failReview" => AnalysisFailed(a)
               /\ StatusOf(a) = "FAILED" => AnalysisFailed(a)
               /\ Done(a) => \/ att[a].outcome.kind = "ok"
                             \/ /\ att[a].outcome.kind = "REVIEW_LLM_FAILED"
                                /\ AnalysisFailed(a)

\* Of the two content fetches of a diff one threw and the other gave its
\* content; both files were analyzed and the call returned success.
C14_Witness ==
    \E a \in Attempts :
        /\ Done(a)
        /\ Call("fetchFileContent", "src/big.ts", FALSE) \in Range(att[a].log)
        /\ DOMAIN att[a].fileContents = {"src/a.ts"}
        /\ Cardinality(ChunkFiles(a)) = 2
        /\ Called(a, "analyzeReviewChunk")
        /\ att[a].outcome.kind = "ok"
        /\ StatusOf(a) = "COMPLETED"

\* File context fc carries no structure: no import and no enclosing scope.
WithoutStructure(fc) ==
    /\ fc.imports = <<>>
    /\ \A k \in DOMAIN fc.enrichedHunks : fc.enrichedHunks[k].enclosingScopes = <<>>

\* C15: whether the parser initializes or not and for whichever files
\* extraction fails, the chunks hold every reviewable file with its hunks, a
\* file without extracted structure having empty scopes and imports, and the
\* call goes on to the analysis; it fails only when an analysis call fails.
C15_ExtractionNeverFatal ==
    \A a \in Attempts :
        Called(a, "initializeAstParser") =>
            /\ ~BuiltNoChunks(a) =>
                   /\ ChunksHoldReviewableFiles(a)
                   /\ Called(a, "analyzeReviewChunk") \/ att[a].pc = "analyze"
            /\ \A fc \in ChunkFiles(a) :
                   \/ WithoutStructure(fc)
                   \/ /\ Call("initializeAstParser", "", TRUE) \in Range(att[a].log)
                      /\ fc.filePath \in DOMAIN att[a].fileContents
                      /\ fc.imports = AstOf(fc.filePath).imports
            /\ att[a].pc = "failReview" => AnalysisFailed(a)
            /\ StatusOf(a) = "FAILED" => AnalysisFailed(a)
            /\ Done(a) => \/ att[a].outcome.kind = "ok"
                          \/ /\ att[a].outcome.kind = "REVIEW_LLM_FAILED"
                             /\ AnalysisFailed(a)

\* The parser initialized and extraction failed for one of two fetched
\* files: both were analyzed, one with structure and one without, and the
\* call returned success.
C15_Witness ==
    \E a \in Attempts :
        /\ Done(a)
        /\ Call("initializeAstParser", "", TRUE) \in Range(att[a].log)
        /\ DOMAIN att[a].fileContents = {"src/a.ts", "src/big.ts"}
        /\ \E fc, gc \in ChunkFiles(a) :
               /\ WithoutStructure(fc)
               /\ gc.imports # <<>>
        /\ att[a].outcome.kind = "ok"
        /\ StatusOf(a) = "COMPLETED"

\* The parser did not initialize: the file was analyzed without structure and
\* the call returned success.
C15_WitnessInit ==
    \E a \in Attempts :
        /\ Done(a)
        /\ Call("initializeAstParser", "", FALSE) \in Range(att[a].log)
        /\ ChunkFiles(a) # {}
        /\ att[a].outcome.kind = "ok"

\* name is not two non-empty parts separated by one "/".
Malformed(name) ==
    LET slashes == { i \in DOMAIN name : name[i] = "/" }
    IN  ~(Cardinality(slashes) = 1 /\ 1 \notin slashes /\ Len(name) \notin slashes)

\* No enabled repository has this name.
AbsentOrDisabled(name) ==
    \A repo \in Repositories : repo.fullName = name => ~repo.isEnabled

\* C16: a call whose repository name is malformed, or names a repository that
\* is absent or disabled, returns db-error, creates no review record and
\* calls neither the source-hosting nor the analysis service; on a malformed
\* name it returns before any lookup.
C16_BadRepositoryIsDbError ==
    \A a \in Attempts :
        (/\ att[a].pc # "idle"
         /\ \/ Malformed(att[a].request.repositoryFullName)
            \/ AbsentOrDisabled(att[a].request.repositoryFullName)) =>
            /\ att[a].pc \in {"findRepository", "done"}
            /\ att[a].reviewId = 0
            /\ ~Called(a, "createReviewRecord")
            /\ NoExternalCall(a)
            /\ \A id \in DOMAIN reviews :
                   \A repo \in Repositories :
                       repo.fullName = att[a].request.repositoryFullName
                           => reviews[id].repositoryId # repo.id
            /\ Done(a) => att[a].outcome.kind = "REVIEW_DB_ERROR"
            /\ Malformed(att[a].request.repositoryFullName) =>
                   Done(a) /\ att[a].log = <<>>

\* A call for a disabled repository returned db-error after its lookup
\* answered.
C16_Witness ==
    \E a \in Attempts :
        /\ Done(a)
        /\ att[a].request.repositoryFullName = NameOX
        /\ att[a].log = <<Call("findRepositoryByFullName", "", TRUE)>>
        /\ att[a].outcome.kind = "REVIEW_DB_ERROR"
        /\ reviews = <<>>

\* A call with a name of an empty repository part returned db-error.
C16_WitnessMalformed ==
    \E a \in Attempts :
        /\ Done(a)
        /\ att[a].request.repositoryFullName = NameNoRepo
        /\ att[a].outcome.kind = "REVIEW_DB_ERROR"

\* The mapper has returned for the findings and the parsed diff it was given.
Mapped == eval.fn = "mapFindingsToGitHubComments" /\ eval.done
MapperInput == eval.args[1]
MapperFiles == eval.args[2]

\* The findings carried by the entries of a list of the mapper's result.
FindingsOf(entries) == [ i \in DOMAIN entries |-> entries[i].finding ]

\* C17: the comment mapper returns for every list of findings and every
\* parsed diff, and each finding of the list is in exactly one of
\* mappedComments and unmappedFindings: the two lengths add up to the number
\* of findings, and the two lists together hold the findings with their
\* multiplicities.
C17_MappingIsTotal ==
    Mapped =>
        /\ Len(eval.out.mappedComments) + Len(eval.out.unmappedFindings)
               = Len(MapperInput)
        /\ SameBag(FindingsOf(eval.out.mappedComments)
                       \o FindingsOf(eval.out.unmappedFindings),
                   MapperInput)
        /\ \A i \in DOMAIN eval.out.mappedComments : eval.out.mappedComments[i].mapped
        /\ \A i \in DOMAIN eval.out.unmappedFindings :
               ~eval.out.unmappedFindings[i].mapped

\* Two findings were mapped, one to each list.
C17_Witness ==
    /\ Mapped
    /\ Len(MapperInput) = 2
    /\ Len(eval.out.mappedComments) = 1
    /\ Len(eval.out.unmappedFindings) = 1
    /\ eval.out.unmappedFindings[1].reason = "not found in diff"

\* The files of the diff whose current or previous path is the finding's.
FilesNamed(fd) ==
    { k \in DOMAIN MapperFiles :
        \/ MapperFiles[k].filePath = fd.filePath
        \/ MapperFiles[k].previousFilePath = fd.filePath }

\* The lines of the hunks of a file of the diff.
LinesOfFile(k) ==
    UNION { Range(MapperFiles[k].hunks[h].lines) : h \in DOMAIN MapperFiles[k].hunks }

\* mappedComments holds fd with this path, line and side.
IsMappedAt(fd, path, line, side) ==
    \E j \in DOMAIN eval.out.mappedComments :
        /\ eval.out.mappedComments[j].finding = fd
        /\ eval.out.mappedComments[j].path = path
        /\ eval.out.mappedComments[j].line = line
        /\ eval.out.mappedComments[j].side = side

\* unmappedFindings holds fd with this reason.
IsUnmappedFor(fd, reason) ==
    \E j \in DOMAIN eval.out.unmappedFindings :
        /\ eval.out.unmappedFindings[j].finding = fd
        /\ eval.out.unmappedFindings[j].reason = reason

\* C18, as stated: a finding whose file is in the diff, and whose line number
\* is the new-file line number of an added or context line of a hunk of that
\* file, is mapped with side RIGHT at that line number, also when the file
\* has a removed line of that old-file number.
C18_AsStated ==
    Mapped =>
        \A i \in DOMAIN MapperInput :
            LET fd == MapperInput[i]
            IN  \A k \in FilesNamed(fd) :
                    (/\ FilesNamed(fd) = {k}
                     /\ \E ln \in LinesOfFile(k) :
                            /\ ln.type \in {"added", "context"}
                            /\ ln.newLineNumber = fd.lineNumber) =>
                        IsMappedAt(fd, MapperFiles[k].filePath, fd.lineNumber, "RIGHT")

\* What the mapper returns for a finding on line 2 of src/a.ts when the hunk
\* replaces line 2: the removed line of old number 2 precedes the added line
\* of new number 2, and the comment is placed on it, side LEFT.
C18_Observed ==
    (/\ Mapped
     /\ MapperFiles = parseUnifiedDiff(DiffSmall).files
     /\ MapperInput = <<Finding("src/a.ts", 2, "BUGS", "WARNING", "m1", "fix")>>) =>
        /\ \E ln \in LinesOfFile(1) : ln.type = "added" /\ ln.newLineNumber = 2
        /\ IsMappedAt(MapperInput[1], "src/a.ts", 2, "LEFT")
        /\ Len(eval.out.mappedComments) = 1

\* C19, as stated: when a file of the diff has the finding's path as its
\* current path, the finding is resolved against that file, also when an
\* earlier file of the diff has that path as its previous path.
C19_AsStated ==
    Mapped =>
        \A i \in DOMAIN MapperInput :
            LET fd == MapperInput[i]
            IN  \A k \in DOMAIN MapperFiles :
                    MapperFiles[k].filePath = fd.filePath =>
                        LET alone == mapSingleFinding(fd, <<MapperFiles[k]>>)
                        IN  IF alone.mapped
                            THEN IsMappedAt(fd, MapperFiles[k].filePath,
                                            alone.line, alone.side)
                            ELSE IsUnmappedFor(fd, alone.reason)

\* What the mapper returns for a finding on line 2 of the new src/b.ts when
\* the diff first lists src/a.ts as renamed from src/b.ts: the finding is
\* resolved against src/a.ts, which has no line 2.
C19_Observed ==
    (/\ Mapped
     /\ MapperFiles = parseUnifiedDiff(DiffRename).files
     /\ MapperInput = <<Finding("src/b.ts", 2, "BUGS", "WARNING", "m1", "fix")>>) =>
        /\ MapperFiles[1].previousFilePath = "src/b.ts"
        /\ MapperFiles[2].filePath = "src/b.ts"
        /\ \E ln \in LinesOfFile(2) : ln.type = "added" /\ ln.newLineNumber = 2
        /\ IsUnmappedFor(MapperInput[1], "is not within the diff context")
        /\ eval.out.mappedComments = <<>>

\* The reason a finding is unmapped for, "" when it is none of the three
\* cases; the matched file is the first of the diff whose current or previous
\* path is the finding's.
ExpectedReason(fd) ==
    LET named == FilesNamed(fd)
        k == CHOOSE m \in named : \A n \in named : m <= n
    IN  IF named = {} THEN "not found in diff"
        ELSE IF MapperFiles[k].hunks = <<>> THEN "has no reviewable hunks"
        ELSE IF \A ln \in LinesOfFile(k) :
                    /\ ln.newLineNumber # fd.lineNumber
                    /\ ~(ln.type = "removed" /\ ln.oldLineNumber = fd.lineNumber)
             THEN "is not within the diff context"
        ELSE ""

\* C20: a finding is in unmappedFindings exactly when its path matches no file
\* of the diff, or the matched file has no hunks, or no line of a hunk of the
\* matched file matches its line number; the reason is that of the first of
\* these cases that applies.
C20_UnmappedCases ==
    Mapped =>
        \A i \in DOMAIN MapperInput :
            LET fd == MapperInput[i]
            IN  /\ ExpectedReason(fd) # "" =>
                    /\ IsUnmappedFor(fd, ExpectedReason(fd))
                    /\ \A j \in DOMAIN eval.out.mappedComments :
                           eval.out.mappedComments[j].finding # fd
                /\ ExpectedReason(fd) = "" =>
                    \E j \in DOMAIN eval.out.mappedComments :
                        eval.out.mappedComments[j].finding = fd
                /\ \A j \in DOMAIN eval.out.unmappedFindings :
                       eval.out.unmappedFindings[j].finding = fd =>
                           eval.out.unmappedFindings[j].reason = ExpectedReason(fd)

\* A finding on line 5 of src/a.ts, whose only hunk spans new lines 10 to 20,
\* is unmapped for not being within the diff context.
C20_Witness ==
    /\ Mapped
    /\ MapperFiles = parseUnifiedDiff(DiffHunk10).files
    /\ Len(MapperFiles) = 1
    /\ Len(MapperFiles[1].hunks) = 1
    /\ { ln.newLineNumber : ln \in LinesOfFile(1) } \ {NULL} = 10..20
    /\ MapperInput = <<Finding("src/a.ts", 5, "BUGS", "WARNING", "m1", "fix")>>
    /\ eval.out.mappedComments = <<>>
    /\ Len(eval.out.unmappedFindings) = 1
    /\ eval.out.unmappedFindings[1].reason = "is not within the diff context"

\* A finding on a file of the diff that has no hunks is unmapped for that.
C20_WitnessNoHunks ==
    /\ Mapped
    /\ \E i \in DOMAIN MapperInput :
           /\ FilesNamed(MapperInput[i]) # {}
           /\ IsUnmappedFor(MapperInput[i], "has no reviewable hunks")

\* The context builder has returned for the parsed diff, the structure map,
\* the contents and the budget it was given.
Built == eval.fn = "buildReviewContext" /\ eval.done
BuiltOk == Built /\ eval.out.success
ContextFiles == eval.args[1]
ContextAst == eval.args[2]
ContextBudget == eval.args[4]

\* The estimated cost of the files of a chunk, file by file.
ChunkCost(chunk) ==
    SeqSum([ i \in DOMAIN chunk.files |-> estimateFileTokenCount(chunk.files[i]) ])

\* C21: every chunk that buildReviewContext returns with more than one file
\* has an estimated token count, the sum of the estimates of its files, within
\* maxTokensPerChunk; only a chunk of one file may exceed it.
C21_MultiFileChunkWithinBudget ==
    BuiltOk =>
        \A c \in DOMAIN eval.out.data :
            /\ eval.out.data[c].estimatedTokenCount = ChunkCost(eval.out.data[c])
            /\ Len(eval.out.data[c].files) > 1 =>
                   eval.out.data[c].estimatedTokenCount <= ContextBudget

\* A chunk of two files within the budget came before a chunk of one file.
C21_Witness ==
    /\ BuiltOk
    /\ Len(eval.out.data) = 2
    /\ Len(eval.out.data[1].files) = 2
    /\ eval.out.data[1].estimatedTokenCount <= ContextBudget
    /\ eval.out.data[1].estimatedTokenCount + eval.out.data[2].estimatedTokenCount
           > ContextBudget

\* A chunk of one file exceeds the budget.
C21_WitnessOversized ==
    /\ BuiltOk
    /\ \E c \in DOMAIN eval.out.data :
           /\ Len(eval.out.data[c].files) = 1
           /\ eval.out.data[c].estimatedTokenCount > ContextBudget

\* The files of the chunks, in the order of the chunks.
RECURSIVE ChunkedFiles(_)
ChunkedFiles(chunks) ==
    IF chunks = <<>> THEN <<>> ELSE Head(chunks).files \o ChunkedFiles(Tail(chunks))

\* A file of the parsed diff is reviewable for the context builder.
KeptByFilter(file) ==
    ~file.isBinary /\ file.changeType # "deleted" /\ file.hunks # <<>>

\* The added and removed lines of a file of the parsed diff.
ChangedLinesOf(file) ==
    SeqSum([ h \in DOMAIN file.hunks |->
        Cardinality({ l \in DOMAIN file.hunks[h].lines :
                        file.hunks[h].lines[l].type # "context" }) ])

\* File f of the parsed diff comes strictly before file g by priority:
\* security-sensitive paths first, then more changed lines first.
Outranks(f, g) ==
    LET fs == isSecuritySensitiveFile(f.filePath)
        gs == isSecuritySensitiveFile(g.filePath)
    IN  \/ fs /\ ~gs
        \/ fs = gs /\ ChangedLinesOf(f) > ChangedLinesOf(g)

\* The position in the parsed diff of the file of this path (paths of a diff
\* are distinct).
DiffIndex(path) == CHOOSE k \in DOMAIN ContextFiles : ContextFiles[k].filePath = path

\* C22: the files of the returned chunks, in order, are the reviewable files
\* of the diff, each once, in priority order (files of equal priority in
\* their order of the diff); no chunk is empty; a file whose own estimate
\* exceeds the budget is the only file of its chunk.
C22_ChunkingKeepsEveryFile ==
    BuiltOk =>
        LET out == ChunkedFiles(eval.out.data)
            kept == { k \in DOMAIN ContextFiles : KeptByFilter(ContextFiles[k]) }
        IN  /\ Len(out) = Cardinality(kept)
            /\ { DiffIndex(out[i].filePath) : i \in DOMAIN out } = kept
            /\ \A i, j \in DOMAIN out :
                   i < j =>
                       LET f == ContextFiles[DiffIndex(out[i].filePath)]
                           g == ContextFiles[DiffIndex(out[j].filePath)]
                       IN  /\ ~Outranks(g, f)
                           /\ ~Outranks(f, g) =>
                                  DiffIndex(out[i].filePath) < DiffIndex(out[j].filePath)
            /\ \A i \in DOMAIN out :
                   out[i].enrichedHunks =
                       buildFileReviewContext(ContextFiles[DiffIndex(out[i].filePath)],
                                              ContextAst, eval.args[3]).enrichedHunks
            /\ \A c \in DOMAIN eval.out.data :
                   /\ eval.out.data[c].files # <<>>
                   /\ \A i \in DOMAIN eval.out.data[c].files :
                          estimateFileTokenCount(eval.out.data[c].files[i]) > ContextBudget
                              => Len(eval.out.data[c].files) = 1

\* Three reviewable files were chunked, the second of them over the budget
\* and alone in the second of three chunks, in an order that is not the
\* diff's.
C22_Witness ==
    /\ BuiltOk
    /\ Len(eval.out.data) = 3
    /\ Len(ChunkedFiles(eval.out.data)) = 3
    /\ eval.out.data[2].estimatedTokenCount > ContextBudget
    /\ eval.out.data[1].estimatedTokenCount <= ContextBudget
    /\ DiffIndex(eval.out.data[1].files[1].filePath) # 1

\* The scopes the structure map holds for a path.
ScopesOf(path) ==
    IF path \in DOMAIN ContextAst THEN Range(ContextAst[path].scopes) ELSE {}

\* C27: a scope s of a file is among the enclosing scopes of a hunk h of that
\* file exactly when s.startLine <= h.newStart + h.newCount - 1 and
\* s.endLine >= h.newStart, for nested scopes and for hunks of newCount 0 too.
C27_EnclosingScopes ==
    BuiltOk =>
        \A c \in DOMAIN eval.out.data :
            \A i \in DOMAIN eval.out.data[c].files :
                LET fc == eval.out.data[c].files[i]
                IN  \A e \in DOMAIN fc.enrichedHunks :
                        LET h == fc.enrichedHunks[e].hunk
                            found == Range(fc.enrichedHunks[e].enclosingScopes)
                        IN  /\ found \subseteq ScopesOf(fc.filePath)
                            /\ \A s \in ScopesOf(fc.filePath) :
                                   s \in found <=>
                                       /\ s.startLine <= h.newStart + h.newCount - 1
                                       /\ s.endLine >= h.newStart

\* A hunk of newCount 0 at new line 4 has the class of lines 1-10 as its one
\* enclosing scope, and a hunk of the same file has two nested scopes.
C27_Witness ==
    /\ BuiltOk
    /\ \E c \in DOMAIN eval.out.data :
           \E i \in DOMAIN eval.out.data[c].files :
               LET hs == eval.out.data[c].files[i].enrichedHunks
               IN  \E e \in DOMAIN hs :
                       /\ hs[e].hunk.newCount = 0
                       /\ hs[e].hunk.newStart = 4
                       /\ hs[e].enclosingScopes = <<Scope("class", 3, 1, 10)>>
    /\ \E c \in DOMAIN eval.out.data :
           \E i \in DOMAIN eval.out.data[c].files :
               LET hs == eval.out.data[c].files[i].enrichedHunks
               IN  \E e \in DOMAIN hs :
                       hs[e].enclosingScopes =
                           <<Scope("class", 3, 1, 10), Scope("method", 4, 2, 3)>>

\* C28: buildReviewContext puts into chunks exactly the files of the parsed
\* diff that are non-binary, not deleted and have a hunk; it returns
\* CONTEXT_NO_REVIEWABLE_FILES exactly when there is no such file, and never
\* success with no chunk.
C28_ReviewableFilesOrError ==
    Built =>
        LET kept == { ContextFiles[k].filePath :
                        k \in { m \in DOMAIN ContextFiles : KeptByFilter(ContextFiles[m]) } }
        IN  /\ eval.out.success <=> kept # {}
            /\ ~eval.out.success =>
                   eval.out.error = "CONTEXT_NO_REVIEWABLE_FILES" /\ eval.out.data = <<>>
            /\ eval.out.success =>
                   /\ eval.out.data # <<>>
                   /\ { f.filePath : f \in Range(ChunkedFiles(eval.out.data)) } = kept
                   /\ Len(ChunkedFiles(eval.out.data)) = Cardinality(kept)

\* A diff of a binary, a deleted and a modified file gave the one chunk of
\* the modified file.
C28_Witness ==
    /\ BuiltOk
    /\ { ContextFiles[k].filePath : k \in DOMAIN ContextFiles }
           = {"logo.bin", "src/old.ts", "src/a.ts"}
    /\ Len(ChunkedFiles(eval.out.data)) = 1
    /\ ChunkedFiles(eval.out.data)[1].filePath = "src/a.ts"

\* A diff of files none of which is reviewable gave the error.
C28_WitnessError ==
    /\ Built
    /\ Len(ContextFiles) = 3
    /\ eval.out.error = "CONTEXT_NO_REVIEWABLE_FILES"

\* The diff parser has returned for the text it was given.
Parsed == eval.fn = "parseUnifiedDiff" /\ eval.done
RawDiff == eval.args[1]

\* The lines of the text from line i + 1 up to the next hunk header or file
\* header, or the end: the body of the hunk whose header is line i.
HunkBody(i) ==
    LET stops == { j \in DOMAIN RawDiff : j > i /\ RawDiff[j].t \in {"hunk", "diff"} }
        last == IF stops = {} THEN Len(RawDiff)
                ELSE (CHOOSE j \in stops : \A k \in stops : j <= k) - 1
    IN  SubSeq(RawDiff, i + 1, last)

\* Every hunk of the text has as many old-side and new-side lines as its
\* header declares (an absent count is 1).
ValidDiffText ==
    \A i \in DOMAIN RawDiff :
        RawDiff[i].t = "hunk" =>
            LET body == HunkBody(i)
                n(marks) == Cardinality({ j \in DOMAIN body : body[j].t \in marks })
            IN  /\ n({" ", "-"}) = (IF RawDiff[i].n[2] = NULL THEN 1 ELSE RawDiff[i].n[2])
                /\ n({" ", "+"}) = (IF RawDiff[i].n[4] = NULL THEN 1 ELSE RawDiff[i].n[4])

\* The number of lines of a parsed hunk of these types.
Replayed(hunk, types) ==
    Cardinality({ l \in DOMAIN hunk.lines : hunk.lines[l].type \in types })

\* C23, as stated: in every hunk parseUnifiedDiff produces from valid
\* unified-diff text, the context and removed lines number oldCount and the
\* context and added lines number newCount, for the last hunk of the text and
\* for hunks with blank context lines too.
C23_AsStated ==
    (Parsed /\ ValidDiffText) =>
        \A f \in DOMAIN eval.out.files :
            \A h \in DOMAIN eval.out.files[f].hunks :
                LET hunk == eval.out.files[f].hunks[h]
                IN  /\ Replayed(hunk, {"context", "removed"}) = hunk.oldCount
                    /\ Replayed(hunk, {"context", "added"}) = hunk.newCount

\* What the parser returns for a one-file diff whose hunk '@@ -1,3 +1,4 @@'
\* ends with a blank context line: the hunk keeps its declared counts and
\* loses that line.
C23_Observed ==
    (Parsed /\ RawDiff = BlockBlankContext) =>
        /\ ValidDiffText
        /\ Len(eval.out.files) = 1
        /\ Len(eval.out.files[1].hunks) = 1
        /\ eval.out.files[1].hunks[1].oldCount = 3
        /\ eval.out.files[1].hunks[1].newCount = 4
        /\ Replayed(eval.out.files[1].hunks[1], {"context", "removed"}) = 2
        /\ Replayed(eval.out.files[1].hunks[1], {"context", "added"}) = 3

\* The same hunk followed by another file block keeps its last line.
C23_ObservedInside ==
    (Parsed /\ RawDiff = BlockBlankContext \o BlockB) =>
        /\ Replayed(eval.out.files[1].hunks[1], {"context", "removed"}) = 3
        /\ Replayed(eval.out.files[1].hunks[1], {"context", "added"}) = 4

\* The paths of the model that match a non-reviewable pattern: lockfiles, a
\* minified script, an image, a source map, a generated and a vendor directory.
NonReviewablePaths ==
    {"yarn.lock", "package-lock.json", "app.min.js", "x.png", "app.js.map",
     "src/generated/x.ts", "node_modules/x.js"}

\* The paths of the file blocks of the text (the b/ path of "diff --git").
BlockPaths == { RawDiff[i].p : i \in { j \in DOMAIN RawDiff : RawDiff[j].t = "diff" } }

\* C24: no file of a non-reviewable path is in ParsedDiff.files, neither with
\* hunks nor without, whether its block adds, modifies, renames, deletes it
\* or marks it binary; the files returned are those of the other blocks.
C24_NonReviewableDropped ==
    Parsed =>
        /\ \A f \in DOMAIN eval.out.files :
               eval.out.files[f].filePath \notin NonReviewablePaths
        /\ { eval.out.files[f].filePath : f \in DOMAIN eval.out.files }
               = BlockPaths \ (NonReviewablePaths \cup {""})

\* A diff of seven non-reviewable files of every kind of change and of
\* src/a.ts gave the one file src/a.ts.
C24_Witness ==
    /\ Parsed
    /\ NonReviewablePaths \subseteq BlockPaths
    /\ \E i, j \in DOMAIN RawDiff :
           /\ RawDiff[i].t = "binary"
           /\ RawDiff[j].t = "rento" /\ RawDiff[j].p \in NonReviewablePaths
    /\ \E i, j \in DOMAIN RawDiff : RawDiff[i].t = "delfile" /\ RawDiff[j].t = "newfile"
    /\ Len(eval.out.files) = 1
    /\ eval.out.files[1].filePath = "src/a.ts"
    /\ eval.out.files[1].hunks # <<>>

\* The paths of the file blocks of the text that carry the binary marker.
BinaryBlockPaths ==
    { RawDiff[i].p :
        i \in { j \in DOMAIN RawDiff :
                  /\ RawDiff[j].t = "diff"
                  /\ \E k \in DOMAIN RawDiff :
                         /\ k > j
                         /\ RawDiff[k].t = "binary"
                         /\ \A m \in j + 1 .. k : RawDiff[m].t # "diff" } }

\* The parsed diff has an entry for this path with isBinary and no hunks.
HasBinaryEntry(path) ==
    \E f \in DOMAIN eval.out.files :
        /\ eval.out.files[f].filePath = path
        /\ eval.out.files[f].isBinary
        /\ eval.out.files[f].hunks = <<>>

\* C25, as stated: a diff with the block "Binary files a/x.png and b/x.png
\* differ" parses to an entry for x.png with isBinary true and no hunks, and
\* every entry with isBinary true has no hunks.
C25_AsStated ==
    Parsed =>
        /\ "x.png" \in BinaryBlockPaths => HasBinaryEntry("x.png")
        /\ \A f \in DOMAIN eval.out.files :
               eval.out.files[f].isBinary => eval.out.files[f].hunks = <<>>

\* C25, amended: a block with the binary marker parses to an entry with
\* isBinary true and no hunks when its path is reviewable, and to no entry
\* when its path matches a non-reviewable pattern, as x.png does; every entry
\* with isBinary true has no hunks.
C25_BinaryEntries ==
    Parsed =>
        /\ \A p \in BinaryBlockPaths :
               /\ p \notin NonReviewablePaths \cup {""} => HasBinaryEntry(p)
               /\ p \in NonReviewablePaths =>
                      \A f \in DOMAIN eval.out.files : eval.out.files[f].filePath # p
        /\ \A f \in DOMAIN eval.out.files :
               /\ eval.out.files[f].isBinary => eval.out.files[f].hunks = <<>>
               /\ eval.out.files[f].isBinary =>
                      eval.out.files[f].filePath \in BinaryBlockPaths

\* A diff of the binary files logo.bin and x.png gave the one entry of
\* logo.bin, binary and without hunks.
C25_Witness ==
    /\ Parsed
    /\ {"logo.bin", "x.png"} \subseteq BinaryBlockPaths
    /\ HasBinaryEntry("logo.bin")
    /\ \A f \in DOMAIN eval.out.files : eval.out.files[f].filePath # "x.png"

\* The text is empty once trimmed: each of its lines is empty or white space.
BlankText ==
    \A i \in DOMAIN RawDiff :
        RawDiff[i].t = "blank" \/ (RawDiff[i].t = " " /\ RawDiff[i].n = <<0>>)

\* C26: parseUnifiedDiff returns DIFF_EMPTY exactly when the trimmed text is
\* empty; for every other text, malformed or not, it returns success with
\* the files it understood, which may be none.
C26_EmptyIsTheOnlyError ==
    Parsed =>
        /\ eval.out.success <=> ~BlankText
        /\ ~eval.out.success => eval.out.error = "DIFF_EMPTY"
        /\ eval.out.success =>
               { eval.out.files[f].filePath : f \in DOMAIN eval.out.files }
                   \subseteq BlockPaths

\* A text of prose, a hunk without a file header and a "diff --git" line
\* without paths parsed with success to zero files.
C26_Witness ==
    /\ Parsed
    /\ RawDiff = BlockNoHeader \o BlockNoPaths
    /\ eval.out.success
    /\ eval.out.files = <<>>

\* A text of white space only gave DIFF_EMPTY.
C26_WitnessEmpty ==
    /\ Parsed
    /\ RawDiff = BlockWhitespace \o BlockWhitespace
    /\ eval.out.error = "DIFF_EMPTY"

\* Call c of the structure parser module has returned.
AstDone(c) == astCalls[c].pc = "done"

\* The parser instances on which extractions have run.
UsedInstances == { astCalls[c].used : c \in AstCallers } \ {0}

\* C29, as stated: after any interleaving of calls of initializeAstParser and
\* parseFileAst, calls that begin before an earlier one has returned
\* included, the syntax backend has been initialized at most once, one
\* Parser has been constructed, and every extraction ran on that one
\* instance.
C29_AsStated ==
    /\ backend.inits <= 1
    /\ backend.parsers <= 1
    /\ Cardinality(UsedInstances) <= 1

\* What two calls of initializeAstParser do when the second begins before
\* the Parser.init of the first has resolved: both initialize the backend
\* and both construct a Parser.
C29_Observed ==
    (/\ astCalls[1].op = "initializeAstParser" /\ astCalls[1].initOutcome = "resolves"
     /\ astCalls[2].op = "initializeAstParser" /\ astCalls[2].initOutcome = "resolves") =>
        /\ backend.inits >= 2
        /\ backend.parsers >= 2
        /\ parserInstance >= 2

\* Calls that begin after an initialization has completed do not initialize
\* again: once initialized is set, a call that begins leaves the backend as
\* it is.
C29_SequentialIsIdempotent ==
    [][ \A c \in AstCallers :
          (initialized /\ astCalls[c].pc = "idle" /\ astCalls'[c].pc # "idle") =>
              /\ astCalls'[c].pc # "Parser.init"
              /\ backend' = backend /\ parserInstance' = parserInstance ]_vars

\* C30, as stated: a parseFileAst call made while the module is
\* uninitialized returns AST_INIT_FAILED, and so does a call whose
\* initialization fails.
C30_AsStated ==
    \A c \in AstCallers :
        AstDone(c) =>
            /\ (astCalls[c].op = "parseFileAst" /\ astCalls[c].uninitialized) =>
                   astCalls[c].result = "AST_INIT_FAILED"
            /\ astCalls[c].initOutcome \in {"rejects", "newParserThrows"} =>
                   astCalls[c].result = "AST_INIT_FAILED"

\* C30, amended: a parseFileAst call made while the module is uninitialized
\* initializes it first; it returns AST_INIT_FAILED exactly when that
\* initialization fails, and goes on to the grammar and the extraction when
\* it succeeds.  A call of initializeAstParser whose initialization fails
\* returns AST_INIT_FAILED too.  Every call returns a Result: ok or an
\* AstParseError.
C30_InitFailureSurfaces ==
    \A c \in AstCallers :
        /\ (astCalls[c].op = "parseFileAst" /\ astCalls[c].uninitialized
                /\ astCalls[c].pc # "Parser.init") =>
               /\ astCalls[c].initOutcome # ""
               /\ astCalls[c].initOutcome = "resolves" =>
                      astCalls[c].pc = "loadLanguageGrammar"
                      \/ (AstDone(c) /\ astCalls[c].result # "AST_INIT_FAILED")
               /\ astCalls[c].initOutcome # "resolves" =>
                      AstDone(c) /\ astCalls[c].result = "AST_INIT_FAILED"
        /\ AstDone(c) =>
               /\ astCalls[c].result \in
                      {"ok", "AST_INIT_FAILED", "AST_LANGUAGE_NOT_SUPPORTED",
                       "AST_PARSE_FAILED"}
               /\ astCalls[c].result = "AST_INIT_FAILED" <=>
                      astCalls[c].initOutcome \in {"rejects", "newParserThrows"}
               /\ astCalls[c].op = "initializeAstParser" =>
                      astCalls[c].result \in {"ok", "AST_INIT_FAILED"}

\* A parseFileAst call made on the uninitialized module returned
\* AST_INIT_FAILED after its Parser.init rejected, and another one, made
\* uninitialized too, returned ok.
C30_Witness ==
    \E c, d \in AstCallers :
        /\ astCalls[c].op = "parseFileAst" /\ astCalls[c].uninitialized
        /\ astCalls[c].initOutcome = "rejects"
        /\ AstDone(c) /\ astCalls[c].result = "AST_INIT_FAILED"
        /\ astCalls[d].op = "parseFileAst" /\ astCalls[d].uninitialized
        /\ astCalls[d].initOutcome = "resolves"
        /\ AstDone(d) /\ astCalls[d].result = "ok"

\* C31: when setLanguage, parse or the extraction throws, or parse returns a
\* null tree, parseFileAst returns AST_PARSE_FAILED; it returns a Result on
\* every path; and a call that obtained a parse tree has released it exactly
\* once when it returns, on success and on failure, while a call that
\* obtained none has released nothing.
C31_ParseFailsClosed ==
    \A c \in AstCallers :
        (AstDone(c) /\ astCalls[c].op = "parseFileAst") =>
            /\ astCalls[c].result \in
                   {"ok", "AST_INIT_FAILED", "AST_LANGUAGE_NOT_SUPPORTED",
                    "AST_PARSE_FAILED"}
            /\ astCalls[c].parse \in
                   {"setLanguageThrows", "parseThrows", "nullTree", "extractionThrows"}
                   => astCalls[c].result = "AST_PARSE_FAILED"
            /\ astCalls[c].result = "ok" => astCalls[c].parse = "ok"
            /\ astCalls[c].parse \in {"ok", "extractionThrows"}
                   => astCalls[c].released = 1
            /\ astCalls[c].parse \notin {"ok", "extractionThrows"}
                   => astCalls[c].released = 0

\* One call returned AST_PARSE_FAILED after its extraction threw, with its
\* tree released once; another returned it for a null tree, with nothing to
\* release.
C31_Witness ==
    \E c, d \in AstCallers :
        /\ AstDone(c) /\ astCalls[c].parse = "extractionThrows"
        /\ astCalls[c].result = "AST_PARSE_FAILED" /\ astCalls[c].released = 1
        /\ AstDone(d) /\ astCalls[d].parse = "nullTree"
        /\ astCalls[d].result = "AST_PARSE_FAILED" /\ astCalls[d].released = 0

\* The DiffLine types a hunk body yields, in order: one for each line that
\* starts with "+", "-" or a space, none for any other line. A body that
\* runs to the end of the text is read without the white space the text ends
\* with.
BodyTypes(i) ==
    LET body == HunkBody(i)
        read == IF i + Len(body) = Len(RawDiff) THEN TrimEnd(body) ELSE body
        code == SelectSeq(read, LAMBDA l : l.t \in {"+", "-", " "})
    IN  [ k \in DOMAIN code |->
            CASE code[k].t = "+" -> "added"
              [] code[k].t = "-" -> "removed"
              [] OTHER           -> "context" ]

\* The lines of the hunk before line l that have one of the types.
Before(hunk, l, types) ==
    Cardinality({ m \in 1..(l - 1) : hunk.lines[m].type \in types })

\* C32: in every hunk the parser produces, an added line has a new-file
\* number and no old-file number, a removed line an old-file number and no
\* new-file number, a context line both; the new-file numbers of the added
\* and context lines are newStart, newStart + 1, .. in order and the old-file
\* numbers of the removed and context lines oldStart, oldStart + 1, ..; and
\* the hunk has one DiffLine for each "+", "-" and " " line of a hunk body of
\* the text, so that a "no newline at end of file" marker gives none.
C32_DiffLineNumbers ==
    Parsed =>
        \A f \in DOMAIN eval.out.files :
            \A h \in DOMAIN eval.out.files[f].hunks :
                LET hunk == eval.out.files[f].hunks[h]
                IN  /\ \A l \in DOMAIN hunk.lines :
                           LET d == hunk.lines[l]
                               new == hunk.newStart + Before(hunk, l, {"added", "context"})
                               old == hunk.oldStart + Before(hunk, l, {"removed", "context"})
                           IN  /\ d.type \in {"added", "removed", "context"}
                               /\ d.type = "added" =>
                                      d.newLineNumber = new /\ d.oldLineNumber = NULL
                               /\ d.type = "removed" =>
                                      d.oldLineNumber = old /\ d.newLineNumber = NULL
                               /\ d.type = "context" =>
                                      d.newLineNumber = new /\ d.oldLineNumber = old
                               /\ d.type # "removed" => d.newLineNumber # NULL
                               /\ d.type # "added" => d.oldLineNumber # NULL
                    /\ \E i \in DOMAIN RawDiff :
                           /\ RawDiff[i].t = "hunk"
                           /\ MatchInt(RawDiff[i].n[1]) = hunk.oldStart
                           /\ MatchInt(RawDiff[i].n[3]) = hunk.newStart
                           /\ [ l \in DOMAIN hunk.lines |-> hunk.lines[l].type ]
                                  = BodyTypes(i)

\* A hunk '@@ -1,3 +1,4 @@' of two context lines, an added line, the marker
\* and a context line was parsed into four lines, the last one numbered 4 in
\* the new file and 3 in the old one.
C32_Witness ==
    /\ Parsed
    /\ RawDiff = BlockBlankContext \o BlockB
    /\ \E i \in DOMAIN HunkBody(4) : HunkBody(4)[i].t = "nonl"
    /\ Len(eval.out.files[1].hunks[1].lines) = 4
    /\ eval.out.files[1].hunks[1].lines[3] = DiffLine("added", 8, 3, NULL)
    /\ eval.out.files[1].hunks[1].lines[4] = DiffLine("context", 0, 4, 3)
    /\ \E l \in DOMAIN eval.out.files[2].hunks[2].lines :
           eval.out.files[2].hunks[2].lines[l].type = "removed"

\* The file of the diff a finding is matched with: the first one, in diff
\* order, whose current or previous path the finding names; 0 if none.
MatchedFile(finding) ==
    LET named == { f \in DOMAIN MapperFiles :
                     \/ MapperFiles[f].filePath = finding.filePath
                     \/ MapperFiles[f].previousFilePath = finding.filePath }
    IN  IF named = {} THEN 0 ELSE CHOOSE f \in named : \A g \in named : f <= g

\* The lines of the hunks of a file that have one of the types.
LinesOfTypes(file, types) ==
    UNION { { file.hunks[h].lines[l] : l \in { k \in DOMAIN file.hunks[h].lines :
                                                  file.hunks[h].lines[k].type \in types } } :
            h \in DOMAIN file.hunks }

\* C33: every mapped comment has the current path of the diff file its
\* finding is matched with, also when the finding names the previous path;
\* on side LEFT its line is the old-file number of a removed line of that
\* file's hunks, on side RIGHT the new-file number of an added or context
\* line of them.
C33_MappedLineExists ==
    Mapped =>
        \A i \in DOMAIN eval.out.mappedComments :
            LET c == eval.out.mappedComments[i]
                f == MatchedFile(c.finding)
            IN  /\ f # 0
                /\ c.path = MapperFiles[f].filePath
                /\ c.side \in {"LEFT", "RIGHT"}
                /\ c.side = "LEFT" =>
                       \E d \in LinesOfTypes(MapperFiles[f], {"removed"}) :
                           d.oldLineNumber = c.line
                /\ c.side = "RIGHT" =>
                       \E d \in LinesOfTypes(MapperFiles[f], {"added", "context"}) :
                           d.newLineNumber = c.line

\* A finding that names the previous path of a renamed file was mapped to the
\* file's current path, on the removed line; and (C33_WitnessDeletion) a
\* finding on old line 5 of src/b.ts, which the diff deletes without a new
\* line 5, was mapped to LEFT 5.
C33_Witness ==
    /\ Mapped
    /\ MapperFiles = parseUnifiedDiff(DiffRename).files
    /\ \E i \in DOMAIN eval.out.mappedComments :
           /\ eval.out.mappedComments[i].finding.filePath = "src/b.ts"
           /\ eval.out.mappedComments[i].path = "src/a.ts"
           /\ eval.out.mappedComments[i].side = "LEFT"

C33_WitnessDeletion ==
    /\ Mapped
    /\ MapperFiles = parseUnifiedDiff(DiffDeletion).files
    /\ \E i \in DOMAIN eval.out.mappedComments :
           /\ eval.out.mappedComments[i].side = "LEFT"
           /\ eval.out.mappedComments[i].line = 5
           /\ \A d \in LinesOfTypes(MapperFiles[1], {"added", "context"}) :
                  d.newLineNumber # 5

\* C34: chunking is greedy: of two consecutive chunks, the first one's
\* estimated token count plus the estimate of the second one's first file
\* exceeds maxTokensPerChunk, and within a chunk every file after the first
\* was added within the budget; the ten files of 4,000 tokens each give, with
\* a budget of 30,000, two chunks: the first seven files, then the last three.
C34_GreedyChunks ==
    BuiltOk =>
        /\ \A c \in DOMAIN eval.out.data :
               LET chunk == eval.out.data[c]
               IN  /\ chunk.files # <<>>
                   /\ chunk.estimatedTokenCount = ChunkCost(chunk)
                   /\ \A i \in 2..Len(chunk.files) :
                          ChunkCost([files |-> SubSeq(chunk.files, 1, i)])
                              <= ContextBudget
                   /\ c < Len(eval.out.data) =>
                          chunk.estimatedTokenCount
                            + estimateFileTokenCount(eval.out.data[c + 1].files[1])
                              > ContextBudget
        /\ (Len(ContextFiles) = Len(TenPaths) /\ ContextBudget = 30000) =>
               /\ Len(eval.out.data) = 2
               /\ [ i \in 1..7 |-> TenPaths[i] ]
                      = [ i \in DOMAIN eval.out.data[1].files |->
                            eval.out.data[1].files[i].filePath ]
               /\ [ i \in 1..3 |-> TenPaths[7 + i] ]
                      = [ i \in DOMAIN eval.out.data[2].files |->
                            eval.out.data[2].files[i].filePath ]
               /\ eval.out.data[1].estimatedTokenCount = 28000
               /\ eval.out.data[2].estimatedTokenCount = 12000

\* The ten files, each estimated at 4,000 tokens, were chunked with a budget
\* of 30,000 into more than one chunk.
C34_Witness ==
    /\ BuiltOk
    /\ Len(ContextFiles) = 10
    /\ ContextBudget = 30000
    /\ Len(eval.out.data) > 1
    /\ \A c \in DOMAIN eval.out.data :
           \A i \in DOMAIN eval.out.data[c].files :
               estimateFileTokenCount(eval.out.data[c].files[i]) = 4000

\* Two chunks of smaller files, the first of them of two files.
C34_WitnessSmall ==
    /\ BuiltOk
    /\ Len(ContextFiles) = 3
    /\ Len(eval.out.data) = 2
    /\ Len(eval.out.data[1].files) = 2
    /\ ContextBudget < DEFAULT_MAX_TOKENS_PER_CHUNK

\* C35: the files of the chunks, in order, are the reviewable files of the
\* diff, each once; every security-sensitive file comes before every other
\* file, and of two files of the same tier the earlier one has at least as
\* many added and removed lines; no chunk holds a non-sensitive file ahead of
\* a sensitive one.
C35_PriorityOrder ==
    BuiltOk =>
        LET out == ChunkedFiles(eval.out.data)
            Sensitive(x) == isSecuritySensitiveFile(x.filePath)
            Changed(x) == ChangedLinesOf(ContextFiles[DiffIndex(x.filePath)])
        IN  /\ \A k \in DOMAIN ContextFiles :
                   Cardinality({ i \in DOMAIN out :
                                   out[i].filePath = ContextFiles[k].filePath })
                       = (IF KeptByFilter(ContextFiles[k]) THEN 1 ELSE 0)
            /\ \A i, j \in DOMAIN out :
                   i < j =>
                       /\ Sensitive(out[j]) => Sensitive(out[i])
                       /\ Sensitive(out[i]) = Sensitive(out[j])
                              => Changed(out[i]) >= Changed(out[j])
            /\ \A c \in DOMAIN eval.out.data :
                   \A i, j \in DOMAIN eval.out.data[c].files :
                       (i < j /\ Sensitive(eval.out.data[c].files[j]))
                           => Sensitive(eval.out.data[c].files[i])

\* A diff that lists the sensitive file last and the file with most changed
\* lines after one with fewer was chunked: the sensitive file first, in one
\* chunk with a non-sensitive file.
C35_Witness ==
    /\ BuiltOk
    /\ Len(ContextFiles) = 3
    /\ ContextFiles[1].filePath = "src/a.ts"
    /\ ContextFiles[2].filePath = "src/b.ts"
    /\ ContextFiles[3].filePath = "src/auth.ts"
    /\ ChangedLinesOf(ContextFiles[1]) < ChangedLinesOf(ContextFiles[2])
    /\ Len(eval.out.data[1].files) > 1
    /\ eval.out.data[1].files[1].filePath = "src/auth.ts"
    /\ eval.out.data[1].files[2].filePath = "src/b.ts"

\* C36, as stated: every file the parser produces has a previousFilePath
\* only if its changeType is renamed or deleted; an added or modified file
\* has none.
C36_AsStated ==
    Parsed =>
        \A f \in DOMAIN eval.out.files :
            eval.out.files[f].previousFilePath # NullPath
                => eval.out.files[f].changeType \in {"renamed", "deleted"}

\* What the parser returns for the diff of a copied file: one file,
\* classified as modified, with the path it was copied from as its previous
\* path.
C36_Observed ==
    (Parsed /\ RawDiff = BlockCopy) =>
        /\ Len(eval.out.files) = 1
        /\ eval.out.files[1].filePath = "src/b.ts"
        /\ eval.out.files[1].changeType = "modified"
        /\ eval.out.files[1].previousFilePath = "src/a.ts"

\* In a text without a copied file, a file has a previous path only if it
\* is renamed, and no deleted file has one.
C36_OutsideCopies ==
    (Parsed /\ \A i \in DOMAIN RawDiff : RawDiff[i].t # "copyfrom") =>
        \A f \in DOMAIN eval.out.files :
            eval.out.files[f].previousFilePath # NullPath
                => eval.out.files[f].changeType = "renamed"

\* The positions of the "diff --git" lines of the text, in order, and the
\* file block that each of them opens.
BlockStarts ==
    SelectSeq([ i \in DOMAIN RawDiff |-> i ], LAMBDA i : RawDiff[i].t = "diff")
RawBlock(k) ==
    SubSeq(RawDiff, BlockStarts[k],
           IF k < Len(BlockStarts) THEN BlockStarts[k + 1] - 1 ELSE Len(RawDiff))

\* The blocks, in order, whose "diff --git" line names a path and whose path
\* matches no non-reviewable pattern.
KeptBlocks ==
    SelectSeq([ k \in DOMAIN BlockStarts |-> k ],
              LAMBDA k : /\ RawDiff[BlockStarts[k]].p # ""
                         /\ RawDiff[BlockStarts[k]].p \notin NonReviewablePaths)

\* C37: ParsedDiff.files is, in the order of the diff, one entry for each
\* file block with a recoverable and reviewable path: the n-th entry has the
\* path of the n-th such block and is the entry that block gives when it is
\* parsed on its own (up to the white space a text ends with being read as
\* part of no hunk); blocks without a recoverable path leave no entry and
\* change no other entry.
C37_FilesInDiffOrder ==
    Parsed =>
        /\ Len(eval.out.files) = Len(KeptBlocks)
        /\ \A n \in DOMAIN eval.out.files :
               LET entry == eval.out.files[n]
                   block == RawBlock(KeptBlocks[n])
                   alone == parseUnifiedDiff(block).files
               IN  /\ entry.filePath = RawDiff[BlockStarts[KeptBlocks[n]]].p
                   /\ Len(alone) = 1
                   /\ entry.filePath = alone[1].filePath
                   /\ entry.previousFilePath = alone[1].previousFilePath
                   /\ entry.changeType = alone[1].changeType
                   /\ entry.language = alone[1].language
                   /\ entry.isBinary = alone[1].isBinary
                   /\ Len(entry.hunks) = Len(alone[1].hunks)
                   /\ ~IsWhitespaceLine(block[Len(block)])
                          => entry.hunks = alone[1].hunks

\* src/b.ts, a block without paths and src/a.ts were parsed into the entries
\* of src/b.ts and src/a.ts, in that order.
C37_Witness ==
    /\ Parsed
    /\ RawDiff = BlockB \o BlockNoPaths \o BlockA
    /\ Len(BlockStarts) = 3
    /\ Len(eval.out.files) = 2
    /\ eval.out.files[1].filePath = "src/b.ts"
    /\ eval.out.files[2].filePath = "src/a.ts"
    /\ Len(eval.out.files[1].hunks) = 2

\* The positions in the log of call a of its terminal writes.
TerminalWrites(a) ==
    { i \in DOMAIN att[a].log : att[a].log[i].op \in {"completeReview", "failReview"} }

\* Call a created its review record.
CreatedRecord(a) ==
    \E i \in DOMAIN att[a].log :
        att[a].log[i].op = "createReviewRecord" /\ att[a].log[i].ok

\* C38: a call of executeReview issues at most one terminal write,
\* completeReview or failReview; the write is the last operation of its log
\* and the call has returned once it is made; a call that created a review
\* record and has returned has issued exactly one, and a call that created
\* none has issued none.
C38_OneTerminalWriteLast ==
    \A a \in Attempts :
        /\ Cardinality(TerminalWrites(a)) <= 1
        /\ \A i \in TerminalWrites(a) : i = Len(att[a].log) /\ Done(a)
        /\ TerminalWrites(a) # {} => CreatedRecord(a)
        /\ (Done(a) /\ CreatedRecord(a)) => Cardinality(TerminalWrites(a)) = 1
        /\ CreatedRecord(a) => att[a].reviewId \in DOMAIN reviews

\* A call returned after completeReview, issued after the review was posted
\* and the comments were saved; the log holds no failReview.
C38_Witness ==
    \E a \in Attempts :
        /\ Done(a)
        /\ Called(a, "postPullRequestReview")
        /\ Called(a, "saveReviewComments")
        /\ LastCall(a).op = "completeReview"
        /\ ~Called(a, "failReview")

\* A call returned after failReview as its only terminal write.
C38_WitnessFailed ==
    \E a \in Attempts :
        /\ Done(a)
        /\ Called(a, "analyzeReviewChunk")
        /\ LastCall(a).op = "failReview"
        /\ ~Called(a, "completeReview")

\* C39, as stated: when a call that created a record has returned, the
\* record is COMPLETED if it returned success, FAILED if it returned
\* diff-fetch-failed, diff-parse-failed or llm-failed, and in no case
\* PENDING or PROCESSING, whichever collaborator and persistence operations
\* failed.
C39_AsStated ==
    \A a \in Attempts :
        (Done(a) /\ CreatedRecord(a)) =>
            /\ att[a].outcome.kind = "ok" => StatusOf(a) = "COMPLETED"
            /\ att[a].outcome.kind \in
                   {"REVIEW_DIFF_FETCH_FAILED", "REVIEW_DIFF_PARSE_FAILED",
                    "REVIEW_LLM_FAILED"} => StatusOf(a) = "FAILED"
            /\ StatusOf(a) \notin {"PENDING", "PROCESSING"}

\* What the calls do: the outcome follows the terminal write that was
\* issued, not its result.  When the write is accepted the record agrees
\* with the outcome; when it fails the call returns the same outcome and the
\* record stays PROCESSING, or PENDING if the update to PROCESSING had
\* failed as well.
C39_Observed ==
    \A a \in Attempts :
        (Done(a) /\ CreatedRecord(a)) =>
            /\ att[a].outcome.kind = "ok" <=> LastCall(a).op = "completeReview"
            /\ att[a].outcome.kind \in
                   {"REVIEW_DIFF_FETCH_FAILED", "REVIEW_DIFF_PARSE_FAILED",
                    "REVIEW_LLM_FAILED"} <=> LastCall(a).op = "failReview"
            /\ LastCall(a).ok =>
                   StatusOf(a) = IF att[a].outcome.kind = "ok"
                                 THEN "COMPLETED" ELSE "FAILED"
            /\ ~LastCall(a).ok =>
                   StatusOf(a) =
                       IF Call("updateReviewStatus", "PROCESSING", TRUE)
                              \in Range(att[a].log)
                       THEN "PROCESSING" ELSE "PENDING"

\* A call returned success while its record is PROCESSING, and a call
\* returned llm-failed while its record is PENDING.
C39_ObservedReached ==
    \E a \in Attempts :
        /\ Done(a)
        /\ \/ att[a].outcome.kind = "ok" /\ StatusOf(a) = "PROCESSING"
           \/ att[a].outcome.kind = "REVIEW_LLM_FAILED" /\ StatusOf(a) = "PENDING"

\* The outcomes of an SDK call after which the loop goes on.
RetriedOutcomes ==
    {"noText", "RateLimitError", "APIConnectionTimeoutError", "BadRequestError",
     "InternalServerError", "other"}

\* The error the client reports for an SDK outcome.
ErrorOf(outcome) ==
    CASE outcome = "noText"                         -> "LLM_INVALID_RESPONSE"
      [] outcome = "RateLimitError"                 -> "LLM_RATE_LIMITED"
      [] outcome = "APIConnectionTimeoutError"      -> "LLM_TIMEOUT"
      [] outcome = "BadRequestError:context length" -> "LLM_CONTEXT_TOO_LONG"
      [] OTHER                                      -> "LLM_UNKNOWN_ERROR"

\* The state of a call of callWithRetry with maxRetries = eval.args[1]: it
\* has made at most maxRetries + 1 SDK calls, every call but the last one
\* was a retried outcome, it has slept once before each call after the
\* first, and when it has returned its last call decides the result:
\* success for a text block, LLM_CONTEXT_TOO_LONG at once for that error,
\* and otherwise, only after maxRetries + 1 calls, the error of the last call.
RetryLoopState ==
    eval.fn = "callWithRetry" =>
        LET n == Len(eval.calls)
        IN  /\ n <= eval.args[1] + 1
            /\ \A i \in 1..(n - 1) : eval.calls[i] \in RetriedOutcomes
            /\ eval.slept = [ i \in 1..Len(eval.slept) |-> 1000 * 3 ^ (i - 1) ]
            /\ Len(eval.slept) = (IF eval.pc = "create" THEN n ELSE n - 1)
            /\ ~eval.done => n <= eval.args[1] /\ (n > 0 => eval.calls[n] \in RetriedOutcomes)
            /\ eval.done =>
                   /\ n >= 1
                   /\ eval.calls[n] = "text" => eval.out.success
                   /\ eval.calls[n] # "text" =>
                          eval.out = [success |-> FALSE, error |-> ErrorOf(eval.calls[n])]
                   /\ eval.calls[n] \in RetriedOutcomes => n = eval.args[1] + 1

\* C40: the retry loop of the text-analysis client ends, after at most
\* maxRetries + 1 SDK calls; it returns at the first call that yields a text
\* block, returns LLM_CONTEXT_TOO_LONG without another call, retries only
\* after a rate limit, a timeout, an unknown error or a response without a
\* text block, and after the last attempt returns the last error observed.
C40_RetryLoopTerminates == []RetryLoopState /\ <>(eval.fn = "callWithRetry" /\ eval.done)

\* A call with maxRetries = 3 returned LLM_TIMEOUT after four SDK calls, the
\* first of them rate limited and one without a text block.
C40_Witness ==
    /\ eval.fn = "callWithRetry"
    /\ eval.done
    /\ eval.args[1] = 3
    /\ Len(eval.calls) = 4
    /\ eval.calls[1] = "RateLimitError"
    /\ "noText" \in Range(eval.calls)
    /\ eval.out = [success |-> FALSE, error |-> "LLM_TIMEOUT"]
    /\ eval.slept = <<1000, 3000, 9000>>

\* A call returned LLM_CONTEXT_TOO_LONG on its second SDK call with retries
\* left.
C40_WitnessNotRetried ==
    /\ eval.fn = "callWithRetry"
    /\ eval.done
    /\ eval.args[1] = 3
    /\ Len(eval.calls) = 2
    /\ eval.out = [success |-> FALSE, error |-> "LLM_CONTEXT_TOO_LONG"]

====
